---- MODULE Spec2Model ----
(***************************************************************************)
(* Model of the compile -> classify -> patch repair loop                   *)
(* (AutoDebugger.run_debugger_with_compiler), of the compiler client       *)
(* (CodesysCompiler.syntax_check) and of the per-file driver (run_fix).    *)
(*                                                                         *)
(* ST code is a sequence of one-character tokens; an LLM reply is a        *)
(* sequence of tokens in which the four patch tags are single tokens.      *)
(***************************************************************************)
EXTENDS Integers, Sequences, FiniteSets, TLC

(* ------------------------------ bounds --------------------------------- *)

\* largest max_verify_count a caller passes (run_fix passes 3)
MaxVerify == 3
\* longest raw error list the compile service returns in the model
MaxErrors == 2

(* ---------------------------- vocabulary ------------------------------- *)

OpenSeg == "<code_segment>"
CloseSeg == "</code_segment>"
OpenPatch == "<patch>"
ClosePatch == "</patch>"
Space == " "

\* the .st files run_fix finds in readful_result, and their contents before repair
StFiles == << "A.st", "B.st" >>
InitialCode(f) == IF f = "A.st" THEN <<"x", "y", "x">> ELSE <<"y", "x">>
NumFiles == Len(StFiles)

\* text replies of the LLM
ReplyNoTags == <<"x", "y">>
ReplyOnePair == <<OpenSeg, Space, "y", Space, CloseSeg, Space, OpenPatch, "x", ClosePatch>>
ReplyAllX == <<"y", OpenSeg, "x", CloseSeg, OpenPatch, Space, "y", ClosePatch>>
ReplyTwoPairs == <<OpenSeg, "x", "y", CloseSeg, OpenPatch, "y", ClosePatch, Space,
                   OpenSeg, "y", CloseSeg, OpenPatch, "x", ClosePatch>>
ReplyTextBetween == <<OpenSeg, "x", CloseSeg, "y", OpenPatch, "y", ClosePatch>>
ReplyUnclosed == <<OpenSeg, "x", CloseSeg, OpenPatch, "y">>

Replies == { ReplyNoTags, ReplyOnePair, ReplyAllX, ReplyTwoPairs,
             ReplyTextBetween, ReplyUnclosed }

(* ------------------------- sequence helpers ---------------------------- *)

Drop(s, n) == SubSeq(s, n + 1, Len(s))

Take(s, n) == SubSeq(s, 1, n)

StartsWith(s, p) == Len(p) <= Len(s) /\ Take(s, Len(p)) = p

Min(S) == CHOOSE m \in S : \A n \in S : m <= n

(* --------------------- str.strip and str.replace ----------------------- *)

RECURSIVE StripLeft(_)
StripLeft(s) ==
    IF s # <<>> /\ Head(s) = Space THEN StripLeft(Tail(s)) ELSE s

RECURSIVE StripRight(_)
StripRight(s) ==
    IF s # <<>> /\ s[Len(s)] = Space THEN StripRight(Take(s, Len(s) - 1)) ELSE s

\* str.strip(): leading and trailing whitespace removed
Strip(s) == StripRight(StripLeft(s))

RECURSIVE InsertEverywhere(_, _)
\* str.replace with an empty old string: new before every character and at the end
InsertEverywhere(s, new) ==
    IF s = <<>> THEN new ELSE new \o <<Head(s)>> \o InsertEverywhere(Tail(s), new)

RECURSIVE ReplaceNonEmpty(_, _, _)
\* the leftmost occurrence of old is replaced, then the text after it is searched
ReplaceNonEmpty(s, old, new) ==
    LET starts == { i \in 1..(Len(s) - Len(old) + 1) : SubSeq(s, i, i + Len(old) - 1) = old }
    IN  IF starts = {} THEN s
        ELSE LET k == Min(starts)
             IN  Take(s, k - 1) \o new \o ReplaceNonEmpty(Drop(s, k - 1 + Len(old)), old, new)

RECURSIVE ReplaceFirstOnly(_, _, _)
\* str.replace(old, new, 1): what a first-occurrence-only replacement would do
ReplaceFirstOnly(s, old, new) ==
    IF Len(s) < Len(old) THEN s
    ELSE IF StartsWith(s, old) THEN new \o Drop(s, Len(old))
    ELSE <<Head(s)>> \o ReplaceFirstOnly(Tail(s), old, new)

\* st_code.replace(buggy, patch): every non-overlapping occurrence, left to right
Replace(s, old, new) ==
    IF old = <<>> THEN InsertEverywhere(s, new) ELSE ReplaceNonEmpty(s, old, new)

(* ---------------------------- parse_patch ------------------------------ *)

\* first index >= i holding tok, 0 when there is none
FirstIndex(t, i, tok) ==
    LET S == { j \in i..Len(t) : t[j] = tok }
    IN  IF S = {} THEN 0 ELSE Min(S)

\* \s* : first index >= i that holds no whitespace (Len(t) + 1 at the end)
SkipSpaces(t, i) ==
    Min({ j \in i..(Len(t) + 1) : j = Len(t) + 1 \/ t[j] # Space })

\* the closing tags at which  <code_segment>(.*?)</code_segment>\s*<patch>(.*?)</patch>
\* can complete for an opening tag at p
SegEnds(t, p) ==
    { q \in (p + 1)..Len(t) :
        /\ t[q] = CloseSeg
        /\ LET r == SkipSpaces(t, q + 1)
           IN  /\ r <= Len(t)
               /\ t[r] = OpenPatch
               /\ FirstIndex(t, r + 1, ClosePatch) # 0 }

RECURSIVE FindAll(_, _)
\* pattern.findall(text) from index i on, with both groups stripped
FindAll(t, i) ==
    LET P == { p \in i..Len(t) : t[p] = OpenSeg /\ SegEnds(t, p) # {} }
    IN  IF P = {} THEN <<>>
        ELSE LET p == Min(P)
                 q == Min(SegEnds(t, p))
                 r == SkipSpaces(t, q + 1)
                 e == FirstIndex(t, r + 1, ClosePatch)
             IN  << << Strip(SubSeq(t, p + 1, q - 1)), Strip(SubSeq(t, r + 1, e - 1)) >> >>
                    \o FindAll(t, e + 1)

parse_patch(text) == FindAll(text, 1)

RECURSIVE ApplyPatches(_, _)
\* for buggy, patch in segments_and_patches: st_code = st_code.replace(buggy, patch)
ApplyPatches(code, pairs) ==
    IF pairs = <<>> THEN code
    ELSE ApplyPatches(Replace(code, Head(pairs)[1], Head(pairs)[2]), Tail(pairs))

RECURSIVE PatchTrace(_, _)
\* the (before, buggy, patch, after) steps of the loop above, in order
PatchTrace(code, pairs) ==
    IF pairs = <<>> THEN <<>>
    ELSE LET after == Replace(code, Head(pairs)[1], Head(pairs)[2])
         IN  << [before |-> code, buggy |-> Head(pairs)[1],
                 patch |-> Head(pairs)[2], after |-> after] >>
                 \o PatchTrace(after, Tail(pairs))

(* ------------------- CodesysCompiler.syntax_check ---------------------- *)

DeclarationError == "Declaration Section Error"
ImplementationError == "Implementation Section Error"
\* error_type of ResponseData.default_false (the source literal is the Chinese for "system error")
SystemError == "system error"
\* error_desc of ResponseData.default_false (Chinese for "compile tool call failed")
SystemErrorDesc == "compile tool call failed"

\* the raw errors of a response body (Path plays no part in the loop)
RawErrors == [IsDef : BOOLEAN, Path : {0}]

RECURSIVE SeqsUpTo(_, _)
SeqsUpTo(S, n) ==
    IF n = 0 THEN { <<>> }
    ELSE LET shorter == SeqsUpTo(S, n - 1)
         IN  shorter \cup { Append(q, x) : q \in { r \in shorter : Len(r) = n - 1 }, x \in S }

\* what the HTTP call can end in: an exception of requests, a non-200 status,
\* a body that is not the JSON of the wire protocol, or a body with its fields
RawResponsesOver(raw_errors) ==
    { [status |-> st, Success |-> "absent", Errors |-> <<>>] :
        st \in { "connect_timeout", "connection_error", "http_error", "malformed_body" } }
    \cup
    { [status |-> "ok", Success |-> su, Errors |-> er] :
        su \in { "true", "false", "absent" }, er \in SeqsUpTo(raw_errors, MaxErrors) }

RawResponses == RawResponsesOver(RawErrors)

\* a failure response that carries no error at all
default_false_no_error == [success |-> FALSE, result |-> "None", errors |-> <<>>]

default_false ==
    [success |-> FALSE, result |-> "None",
     errors |-> << [error_desc |-> SystemErrorDesc, error_type |-> SystemError, line_no |-> -1] >>]

\* marks an exception leaving a call
Raised == [success |-> FALSE, result |-> "raised", errors |-> <<>>]

\* the value of check_result before the first syntax_check
NoResult == [success |-> FALSE, result |-> "unset", errors |-> <<>>]

\* an exception escaping syntax_check: what dropping the last except clause would do
OnOtherExceptionPropagates == Raised

\* except Exception: return ResponseData.default_false()
OnOtherException == default_false

\* one raw error made an ErrorMessage (line_no is None in default_false, -1 here)
SimplifyError(err) ==
    [error_desc |-> "ErrorDesc",
     error_type |-> IF err.IsDef THEN DeclarationError ELSE ImplementationError,
     line_no |-> err.Path]

SimplifyErrors(raw_errors) == [i \in 1..Len(raw_errors) |-> SimplifyError(raw_errors[i])]

syntax_check(raw) ==
    IF raw.status = "connect_timeout" THEN default_false
    ELSE IF raw.status = "connection_error" THEN default_false
    ELSE IF raw.status = "malformed_body" THEN OnOtherException
    ELSE IF raw.status = "http_error" THEN default_false
    ELSE [success |-> (raw.Success # "false"),
          result |-> "Result",
          errors |-> SimplifyErrors(raw.Errors)]

(* -------------------- error selection for the prompt ------------------- *)

RECURSIVE AppendOfType(_, _, _)
\* for error in check_result.errors: if error.error_type == ty: error_list.append(...)
AppendOfType(error_list, errors, ty) ==
    IF errors = <<>> THEN error_list
    ELSE AppendOfType(IF Head(errors).error_type = ty
                          THEN Append(error_list, Head(errors))
                          ELSE error_list,
                      Tail(errors), ty)

\* both kinds always appended: the selection without its "if not error_list" guard
SelectPromptErrorsUnguarded(errors) ==
    AppendOfType(AppendOfType(<<>>, errors, DeclarationError), errors, ImplementationError)

SelectPromptErrors(errors) ==
    LET error_list == AppendOfType(<<>>, errors, DeclarationError)
    IN  IF error_list = <<>>
            THEN AppendOfType(error_list, errors, ImplementationError)
            ELSE error_list

(* ------------------------------- state --------------------------------- *)

VARIABLES
    files,              \* run_fix: readful_result, file index -> content
    cur,                \* run_fix: index of the file being processed
    success_count,      \* run_fix: files repaired successfully
    pc,                 \* where control is: idle, loop, llm, returned, raised, done
    max_verify_count,   \* parameter of the repair loop
    st_code,            \* loop: the code being repaired
    verify_count,       \* loop: iteration counter
    check_result,       \* loop: ResponseData of the last syntax_check
    no_error,           \* loop: check_result.success of the last syntax_check
    error_list,         \* loop: the errors put in the last repair prompt
    verifier_messages,  \* loop: the running message list
    snapshots,          \* loop: the {name}_{n}.st files written, in write order
    llm_calls,          \* history: number of openai_client.call calls in this run
    last_reply,         \* history: text of the last LLM reply in this run
    last_apply,         \* history: the replace steps of the last patch application
    patch_pending,      \* history: a patch was applied and not compiled since
    checked_code,       \* history: the code given to the last syntax_check
    raise_origin        \* history: which call raised the exception in flight

\* the variables of the repair loop and of run_fix
loop_vars == << files, cur, success_count, pc, max_verify_count, st_code, verify_count,
                check_result, no_error, error_list, verifier_messages, snapshots,
                llm_calls, last_reply, last_apply, patch_pending, checked_code,
                raise_origin >>

VARIABLES
    cg_state,           \* generate_corpus: off, collect, written
    cg_window_size,     \* generate_corpus: window_size
    cg_slice_size,      \* generate_corpus: slice_size
    cg_files,           \* generate_corpus: the files collected, (relative_path, number of lines)
    cg_next,            \* generate_corpus: index of the next file of the for loop
    corpus_entries      \* generate_corpus: the entries built so far, in order

corpus_vars == << cg_state, cg_window_size, cg_slice_size, cg_files, cg_next,
                  corpus_entries >>

VARIABLES
    cc_state,           \* compiler client: off, request, answered
    cc_source,          \* compiler client: st_code as a sequence of lines
    cc_raw,             \* compiler client: what the HTTP call ended in
    cc_response,        \* compiler client: the ResponseData returned
    cc_located          \* compiler client: what extract_code_window found per raw error

compiler_vars == << cc_state, cc_source, cc_raw, cc_response, cc_located >>

VARIABLES
    pp_state,           \* post-processing: off, generated, written, rewritten
    pp_tool,            \* post-processing: which post-processor wrote the file
    pp_prefix,          \* post-processing: provide_code of the case
    pp_candidate,       \* post-processing: the raw generation of the LLM
    pp_file             \* post-processing: content of readful_result/{f}.st

post_vars == << pp_state, pp_tool, pp_prefix, pp_candidate, pp_file >>

VARIABLES
    bd_state,           \* declaration boundary: off, read, split
    bd_lines,           \* declaration boundary: the lines of the ST file
    bd_provide,         \* declaration boundary: how many of the lines are provide_code
    bd_cut              \* declaration boundary: the boundary each implementation computed

boundary_vars == << bd_state, bd_lines, bd_provide, bd_cut >>

VARIABLES
    rt_state,           \* retrieval: off, instances, done, raised
    rt_query_dir,       \* retrieval: args.query_dir is given (new query format)
    rt_instances,       \* retrieval: instance_list, each with its corpus and query ids
    rt_next,            \* retrieval: index of the instance the loop is at
    rt_processed,       \* retrieval: processed_instances
    rt_queries,         \* retrieval: per instance, the query ids before ranking
    rt_results          \* retrieval: per instance, the keys of results after ranking

retrieve_vars == << rt_state, rt_query_dir, rt_instances, rt_next, rt_processed,
                    rt_queries, rt_results >>

VARIABLES
    fp_pc,              \* orchestrator: off, retrieve, plan, generation, fix, exit
    fp_args,            \* orchestrator: the skip_* flags of the command line
    fp_planner,         \* orchestrator: generate_plan_for_case was imported
    fp_count,           \* orchestrator: len(projects_to_process)
    fp_idx,             \* orchestrator: index of the project being processed
    fp_ran,             \* orchestrator: per project, the stages run and what they returned
    fp_plans,           \* orchestrator: per project, plan LLM calls made (files written)
    fp_repairs,         \* orchestrator: per project, the outcome of the repair of each file
    fp_results,         \* orchestrator: results (success, failed, skipped)
    fp_exit             \* orchestrator: exit code, -1 while running

orch_vars == << fp_pc, fp_args, fp_planner, fp_count, fp_idx, fp_ran, fp_plans,
                fp_repairs, fp_results, fp_exit >>

VARIABLES
    rf_state,           \* backup: off, idle, copied, returned
    rf_readful,         \* backup: readful_result, file -> revision of its content
    rf_backup,          \* backup: readful_result_before_fix, <<>> while absent
    rf_next,            \* backup: index of the file the repair loop is at
    rf_runs             \* backup: calls of run_fix on this directory so far

backup_vars == << rf_state, rf_readful, rf_backup, rf_next, rf_runs >>

VARIABLES
    gr_state,           \* get_response: off, loop, sleep, returned, raised
    gr_n_iters,         \* get_response: parameter n_iters
    gr_sleep,           \* get_response: parameter sleep
    gr_i_iters,         \* get_response: i_iters
    gr_calls,           \* get_response: outcome of each API call, in order
    gr_slept            \* get_response: the time.sleep durations, in order

retry_vars == << gr_state, gr_n_iters, gr_sleep, gr_i_iters, gr_calls, gr_slept >>

VARIABLES
    fe_state,           \* fix_missing_end_blocks: off, read, fixed
    fe_lines,           \* fix_missing_end_blocks: code.splitlines()
    fe_new_lines,       \* fix_missing_end_blocks: new_lines
    fe_inserts          \* fix_missing_end_blocks: inserts

endfix_vars == << fe_state, fe_lines, fe_new_lines, fe_inserts >>

\* the stages around the repair loop and the helpers of the generator
late_vars == << retrieve_vars, orch_vars, backup_vars, retry_vars, endfix_vars >>

\* everything outside the repair loop
side_vars == << corpus_vars, compiler_vars, post_vars, boundary_vars, late_vars >>

vars == << loop_vars, side_vars >>

\* generate_corpus not running
CorpusOff ==
    /\ cg_state = "off"
    /\ cg_window_size = 0
    /\ cg_slice_size = 0
    /\ cg_files = <<>>
    /\ cg_next = 0
    /\ corpus_entries = <<>>

\* no syntax_check outside the repair loop
CompilerOff ==
    /\ cc_state = "off"
    /\ cc_source = <<>>
    /\ cc_raw = <<>>
    /\ cc_response = <<>>
    /\ cc_located = <<>>

\* no post-processing running
PostOff ==
    /\ pp_state = "off"
    /\ pp_tool = "none"
    /\ pp_prefix = <<>>
    /\ pp_candidate = <<>>
    /\ pp_file = <<>>

\* no declaration split running
BoundaryOff ==
    /\ bd_state = "off"
    /\ bd_lines = <<>>
    /\ bd_provide = 0
    /\ bd_cut = <<>>

\* no retrieval running
RetrieveOff ==
    /\ rt_state = "off"
    /\ rt_query_dir = FALSE
    /\ rt_instances = <<>>
    /\ rt_next = 0
    /\ rt_processed = 0
    /\ rt_queries = <<>>
    /\ rt_results = <<>>

\* no orchestrator running
OrchOff ==
    /\ fp_pc = "off"
    /\ fp_args = <<>>
    /\ fp_planner = FALSE
    /\ fp_count = 0
    /\ fp_idx = 0
    /\ fp_ran = <<>>
    /\ fp_plans = <<>>
    /\ fp_repairs = <<>>
    /\ fp_results = <<>>
    /\ fp_exit = -1

\* no result directory under repair
BackupOff ==
    /\ rf_state = "off"
    /\ rf_readful = <<>>
    /\ rf_backup = <<>>
    /\ rf_next = 0
    /\ rf_runs = 0

\* no generation call in flight
RetryOff ==
    /\ gr_state = "off"
    /\ gr_n_iters = 0
    /\ gr_sleep = 0
    /\ gr_i_iters = 0
    /\ gr_calls = <<>>
    /\ gr_slept = <<>>

\* no end-block fix running
EndFixOff ==
    /\ fe_state = "off"
    /\ fe_lines = <<>>
    /\ fe_new_lines = <<>>
    /\ fe_inserts = <<>>

\* none of the later models running
LateOff ==
    /\ RetrieveOff
    /\ OrchOff
    /\ BackupOff
    /\ RetryOff
    /\ EndFixOff

runfix_vars == << files, cur, success_count >>

NoReply == << "no reply" >>

NoCode == << "no code" >>

\* the loop's locals outside a run
ResetLocals ==
    /\ verify_count' = 0
    /\ check_result' = NoResult
    /\ no_error' = FALSE
    /\ error_list' = <<>>
    /\ verifier_messages' = <<>>
    /\ snapshots' = <<>>
    /\ llm_calls' = 0
    /\ last_reply' = NoReply
    /\ last_apply' = <<>>
    /\ patch_pending' = FALSE
    /\ checked_code' = NoCode
    /\ raise_origin' = "none"

\* run_fix about to start on its files
LoopInit ==
    /\ files = [i \in 1..NumFiles |-> InitialCode(StFiles[i])]
    /\ cur = 1
    /\ success_count = 0
    /\ pc = "idle"
    /\ max_verify_count \in 1..MaxVerify
    /\ st_code = NoCode
    /\ verify_count = 0
    /\ check_result = NoResult
    /\ no_error = FALSE
    /\ error_list = <<>>
    /\ verifier_messages = <<>>
    /\ snapshots = <<>>
    /\ llm_calls = 0
    /\ last_reply = NoReply
    /\ last_apply = <<>>
    /\ patch_pending = FALSE
    /\ checked_code = NoCode
    /\ raise_origin = "none"

Init ==
    /\ LoopInit
    /\ CorpusOff
    /\ CompilerOff
    /\ PostOff
    /\ BoundaryOff
    /\ LateOff

(* ---------------------------- loop control ----------------------------- *)

\* while verify_count <= max_verify_count: one iteration too many
LoopGuardInclusive(vc, max) == vc <= max

\* while verify_count < max_verify_count
LoopGuard(vc, max) == vc < max

\* the counter left as it is at the head of the iteration
CountIterationMissing(vc) == vc

\* verify_count += 1
CountIteration(vc) == vc + 1

\* leaving the loop when the reply held no patch
StopOnEmptyPatch(pairs) == IF pairs = <<>> THEN "exit" ELSE "loop"

\* the end of the loop body: control goes back to the while test
AfterPatch(pairs) == "loop"

\* the message list built anew from the system prompt: what losing the history would do
RestartMessages(messages, m) == << messages[1], m >>

\* verifier_messages.append({"role": ..., "content": ...})
AppendMessage(messages, m) == Append(messages, m)

\* code_output_file = {name}_{verify_count}.st, opened "w" and written once
WriteFinal(written, n, code) == Append(written, [n |-> n, code |-> code])

(* ------------------------------ run_fix -------------------------------- *)

\* run_fix takes the next .st file and calls the repair loop on its content
AutoFixStart ==
    /\ UNCHANGED side_vars
    /\ pc = "idle"
    /\ cur <= NumFiles
    /\ st_code' = files[cur]
    /\ verifier_messages' = << [role |-> "system", n |-> 0] >>
    /\ pc' = "loop"
    /\ UNCHANGED << files, cur, success_count, max_verify_count, verify_count,
                    check_result, no_error, error_list, snapshots, llm_calls,
                    last_reply, last_apply, patch_pending, checked_code, raise_origin >>

(* ---------------- AutoDebugger.run_debugger_with_compiler -------------- *)

\* after the loop: the final code is written to {name}_{verify_count}.st and returned
Return(code, count) ==
    /\ snapshots' = WriteFinal(snapshots, count, code)
    /\ pc' = "returned"

\* one pass from the while test to the LLM call: count, compile, classify
LoopCheck ==
    /\ UNCHANGED side_vars
    /\ pc = "loop"
    /\ LoopGuard(verify_count, max_verify_count)
    /\ \E raw \in RawResponses :
         LET res == syntax_check(raw)
             count == CountIteration(verify_count)
         IN  /\ verify_count' = count
             /\ checked_code' = st_code
             /\ patch_pending' = FALSE
             /\ IF res = Raised
                  THEN /\ pc' = "raised"
                       /\ raise_origin' = "compiler"
                       /\ UNCHANGED << check_result, no_error, error_list,
                                       verifier_messages, snapshots >>
                  ELSE /\ check_result' = res
                       /\ no_error' = res.success
                       /\ raise_origin' = "none"
                       /\ IF res.success
                            THEN /\ Return(st_code, count)
                                 /\ UNCHANGED << error_list, verifier_messages >>
                            ELSE /\ error_list' = SelectPromptErrors(res.errors)
                                 /\ verifier_messages' =
                                      AppendMessage(verifier_messages,
                                                    [role |-> "user", n |-> count])
                                 /\ pc' = "llm"
                                 /\ UNCHANGED snapshots
    /\ UNCHANGED << runfix_vars, max_verify_count, st_code, llm_calls, last_reply,
                    last_apply >>

\* the while test fails: the budget is used up
LoopExhausted ==
    /\ UNCHANGED side_vars
    /\ pc = "loop"
    /\ ~LoopGuard(verify_count, max_verify_count)
    /\ Return(st_code, verify_count)
    /\ UNCHANGED << runfix_vars, max_verify_count, st_code, verify_count, check_result,
                    no_error, error_list, verifier_messages, llm_calls, last_reply,
                    last_apply, patch_pending, checked_code, raise_origin >>

\* openai_client.call raises, or extract_content finds no content in the response
LLMFails ==
    /\ UNCHANGED side_vars
    /\ pc = "llm"
    /\ \E origin \in { "llm_call", "extract_content" } : raise_origin' = origin
    /\ llm_calls' = llm_calls + 1
    /\ pc' = "raised"
    /\ UNCHANGED << runfix_vars, max_verify_count, st_code, verify_count, check_result,
                    no_error, error_list, verifier_messages, snapshots, last_reply,
                    last_apply, patch_pending, checked_code >>

\* the LLM answers: the reply is recorded, parsed and its patches applied
LLMReplies ==
    /\ UNCHANGED side_vars
    /\ pc = "llm"
    /\ \E reply \in Replies :
         LET segments_and_patches == parse_patch(reply)
             next == AfterPatch(segments_and_patches)
         IN  /\ last_reply' = reply
             /\ verifier_messages' =
                  AppendMessage(verifier_messages,
                                [role |-> "assistant", n |-> verify_count])
             /\ st_code' = ApplyPatches(st_code, segments_and_patches)
             /\ last_apply' = PatchTrace(st_code, segments_and_patches)
             /\ patch_pending' = (segments_and_patches # <<>>)
             /\ IF next = "loop"
                  THEN pc' = "loop" /\ UNCHANGED snapshots
                  ELSE Return(ApplyPatches(st_code, segments_and_patches), verify_count)
    /\ llm_calls' = llm_calls + 1
    /\ UNCHANGED << runfix_vars, max_verify_count, verify_count, check_result, no_error,
                    error_list, checked_code, raise_origin >>

(* --------------------------- run_fix, again ---------------------------- *)

\* the call returned (fixed_code, success, count): fixed_code is written back
RunFixWrite ==
    /\ UNCHANGED side_vars
    /\ pc = "returned"
    /\ files' = [files EXCEPT ![cur] = st_code]
    /\ success_count' = IF no_error THEN success_count + 1 ELSE success_count
    /\ cur' = cur + 1
    /\ pc' = "idle"
    /\ st_code' = NoCode
    /\ ResetLocals
    /\ UNCHANGED max_verify_count

\* except Exception: the error is printed and the next file is taken
RunFixExcept ==
    /\ UNCHANGED side_vars
    /\ pc = "raised"
    /\ cur' = cur + 1
    /\ pc' = "idle"
    /\ st_code' = NoCode
    /\ ResetLocals
    /\ UNCHANGED << files, success_count, max_verify_count >>

\* all files processed: run_fix returns success_count > 0
RunFixDone ==
    /\ UNCHANGED side_vars
    /\ pc = "idle"
    /\ cur > NumFiles
    /\ pc' = "done"
    /\ UNCHANGED << files, cur, success_count, max_verify_count, st_code, verify_count,
                    check_result, no_error, error_list, verifier_messages, snapshots,
                    llm_calls, last_reply, last_apply, patch_pending, checked_code,
                    raise_origin >>

Next ==
    \/ AutoFixStart
    \/ LoopCheck
    \/ LoopExhausted
    \/ LLMFails
    \/ LLMReplies
    \/ RunFixWrite
    \/ RunFixExcept
    \/ RunFixDone

Spec == Init /\ [][Next]_vars

TypeOK ==
    /\ pc \in { "idle", "loop", "llm", "returned", "raised", "done" }
    /\ verify_count \in 0..(MaxVerify + 1)
    /\ cur \in 1..(NumFiles + 1)

(* =============================== claims ================================ *)

\* C1: in every run of the repair loop for one file, the number of LLM patch
\* calls is at most max_verify_count, whatever the compiler and the LLM return.
C1_PatchCallsBounded == llm_calls <= max_verify_count

\* a run that used its whole budget of more than one call
C1_Witness ==
    /\ pc = "returned"
    /\ max_verify_count > 1
    /\ llm_calls = max_verify_count

\* C2: whenever the repair loop returns, its iteration count lies in
\* 1..max_verify_count, also when the very first compile succeeds.
C2_IterationsInRange ==
    pc = "returned" => (verify_count >= 1 /\ verify_count <= max_verify_count)

\* the first compile succeeds: the loop returns after one iteration and no LLM call
C2_Witness ==
    /\ pc = "returned"
    /\ no_error
    /\ llm_calls = 0
    /\ verify_count = 1

\* C3: if the loop reports success, the last syntax_check was run on exactly the
\* code it returns and that check's error list was empty.
C3_SuccessMeansNoErrors ==
    (pc = "returned" /\ no_error) =>
        (checked_code = st_code /\ check_result.errors = <<>>)

\* C4: every patch application is followed by a compile of the patched code
\* before the loop returns (so a last patch that fixes the code is seen to).
C4_EveryPatchIsCompiled == pc = "returned" => ~patch_pending

\* the start indices at which old occurs in s
Occurrences(s, old) ==
    { i \in 1..(Len(s) - Len(old) + 1) : SubSeq(s, i, i + Len(old) - 1) = old }

\* s with its first occurrence of old replaced by new and the rest left as it is
FirstOccurrenceReplaced(s, old, new) ==
    IF Occurrences(s, old) = {} THEN s
    ELSE LET k == Min(Occurrences(s, old))
         IN  Take(s, k - 1) \o new \o Drop(s, k - 1 + Len(old))

\* C5 as stated: applying one (segment, patch) pair replaces only the first
\* occurrence of segment; every later occurrence is left unchanged.
C5_OnlyFirstOccurrence ==
    \A i \in 1..Len(last_apply) :
        last_apply[i].after =
            FirstOccurrenceReplaced(last_apply[i].before, last_apply[i].buggy,
                                    last_apply[i].patch)

RECURSIVE SplitAcc(_, _, _)
SplitAcc(s, sep, piece) ==
    IF Len(s) < Len(sep) THEN << piece \o s >>
    ELSE IF StartsWith(s, sep) THEN << piece >> \o SplitAcc(Drop(s, Len(sep)), sep, <<>>)
    ELSE SplitAcc(Tail(s), sep, Append(piece, Head(s)))

\* s cut at every non-overlapping occurrence of a non-empty sep, left to right
Split(s, sep) == SplitAcc(s, sep, <<>>)

RECURSIVE Join(_, _)
Join(pieces, glue) ==
    IF Len(pieces) = 1 THEN pieces[1]
    ELSE pieces[1] \o glue \o Join(Tail(pieces), glue)

\* C5 as amended: applying one (segment, patch) pair with a non-empty segment
\* replaces every non-overlapping occurrence of segment, scanning left to right:
\* the pieces of the code between the occurrences are kept and patch stands
\* between each two of them.
C5_EveryOccurrenceReplaced ==
    \A i \in 1..Len(last_apply) :
        last_apply[i].buggy # <<>> =>
            last_apply[i].after =
                Join(Split(last_apply[i].before, last_apply[i].buggy), last_apply[i].patch)

\* a pair was applied to code holding its segment twice
C5_Witness ==
    \E i \in 1..Len(last_apply) :
        /\ last_apply[i].buggy # <<>>
        /\ Cardinality(Occurrences(last_apply[i].before, last_apply[i].buggy)) >= 2
        /\ last_apply[i].after # last_apply[i].before

\* C6: when syntax_check returns the synthetic system error, the loop stops at
\* once with success = false and makes no LLM call for that response.
C6_SystemErrorStopsLoop ==
    check_result = default_false => (pc = "returned" /\ ~no_error)

IsDeclaration(e) == e.error_type = DeclarationError

IsImplementation(e) == e.error_type = ImplementationError

\* C7: if the compile response holds at least one Declaration Section Error the
\* repair prompt carries exactly the Declaration Section Errors; only when there
\* is none does it carry all Implementation Section Errors.
C7_DeclarationErrorsFirst ==
    pc = "llm" =>
        IF \E i \in 1..Len(check_result.errors) : IsDeclaration(check_result.errors[i])
            THEN error_list = SelectSeq(check_result.errors, IsDeclaration)
            ELSE error_list = SelectSeq(check_result.errors, IsImplementation)

\* a response with an error of each kind, in the prompt only the declaration one
C7_Witness ==
    /\ pc = "llm"
    /\ \E i \in 1..Len(check_result.errors) : IsDeclaration(check_result.errors[i])
    /\ \E i \in 1..Len(check_result.errors) : IsImplementation(check_result.errors[i])
    /\ Len(error_list) = 1

\* C8: snapshots are written once per iteration, in iteration order, numbered
\* from 0: a run of k patch iterations leaves exactly the snapshots 0 .. k-1.
C8_SnapshotPerIteration ==
    pc = "returned" =>
        [i \in 1..Len(snapshots) |-> snapshots[i].n] = [i \in 1..llm_calls |-> i - 1]

HasPair(reply) ==
    \E p \in 1..Len(reply), q \in 1..Len(reply), r \in 1..Len(reply), e \in 1..Len(reply) :
        /\ p < q /\ q < r /\ r < e
        /\ reply[p] = OpenSeg
        /\ reply[q] = CloseSeg
        /\ \A j \in (q + 1)..(r - 1) : reply[j] = Space
        /\ reply[r] = OpenPatch
        /\ reply[e] = ClosePatch

\* C10: an LLM reply without a <code_segment>/<patch> pair leaves the code
\* unchanged, its iteration has been counted, and control goes back to the
\* loop for the next iteration.
C10_ReplyWithoutPairIsNoOp ==
    [][(pc = "llm" /\ pc' # "raised" /\ ~HasPair(last_reply')) =>
          /\ st_code' = st_code
          /\ verify_count' = verify_count
          /\ llm_calls' = verify_count
          /\ pc' = "loop"]_vars

\* a reply with tags but no pair was consumed and another iteration is left
C10_Witness ==
    /\ pc = "loop"
    /\ last_reply = ReplyTextBetween
    /\ st_code = checked_code
    /\ verify_count < max_verify_count


(* ---------------------------- C11: the file on disk ---------------------------- *)

\* C11: after every repair iteration, the file at file_path holds the latest
\* code: between two iterations of the loop (one iteration done, the next not
\* started) the file run_fix will write equals st_code.
C11_FileHoldsLatestCode ==
    (pc = "loop" /\ verify_count >= 1) => files[cur] = st_code

(* ---------------------------- C12: the message list ---------------------------- *)

IsPrefix(s, t) == Len(s) <= Len(t) /\ \A i \in 1..Len(s) : t[i] = s[i]

\* system prompt first, then user and assistant messages in turn
WellFormedMessages(messages) ==
    /\ Len(messages) >= 1
    /\ messages[1].role = "system"
    /\ \A i \in 2..Len(messages) :
           messages[i].role = (IF i % 2 = 0 THEN "user" ELSE "assistant")

\* C12: the message list of one run only grows: the system prompt stays first,
\* every iteration that reaches the LLM appends one user message and, once the
\* LLM has answered, one assistant message, and no step inside the loop removes
\* or reorders a message.
C12_MessagesOnlyGrow ==
    /\ [](pc \in {"loop", "llm"} =>
            /\ WellFormedMessages(verifier_messages)
            /\ Len(verifier_messages) =
                   1 + 2 * llm_calls + (IF pc = "llm" THEN 1 ELSE 0))
    /\ [][(pc \in {"loop", "llm"} /\ pc' \in {"loop", "llm"}) =>
            /\ IsPrefix(verifier_messages, verifier_messages')
            /\ Len(verifier_messages') <= Len(verifier_messages) + 1]_vars

\* two full iterations done: system, user, assistant, user, assistant
C12_Witness ==
    /\ pc = "loop"
    /\ llm_calls = 2
    /\ Len(verifier_messages) = 5


(* ====================== the corpus builder (dataset/corpus_gen.py) ====================== *)

\* most lines of one project file
MaxLines == 5

\* largest window_size tried
MaxWindow == 5

\* largest slice_size tried
MaxSlice == 2

\* project_name, as the characters of the doc_id
ProjectName == << "p" >>

\* the relative paths collect_files finds, in walk order (top directory first),
\* each as the characters str(relative_path) gives
RelPaths == << << "a", "_", "b" >>, << "c" >>, << "a", "/", "b" >> >>

Digits == << "0", "1", "2", "3", "4", "5", "6", "7", "8", "9" >>

\* what an f-string makes of a non-negative int
RECURSIVE IntToStr(_)
IntToStr(n) ==
    IF n < 10 THEN << Digits[n + 1] >>
    ELSE IntToStr(n \div 10) \o << Digits[(n % 10) + 1] >>

\* .replace('\\', '_').replace('/', '_').replace(' ', '_') on one character
CleanChar(c) == IF c \in { "\\", "/", " " } THEN "_" ELSE c

CleanId(id) == [i \in 1..Len(id) |-> CleanChar(id[i])]

\* doc_id = f"{project_name}_{relative_path}_{start}-{end}", then cleaned
DocId(project_name, relative_path, start, end) ==
    CleanId(project_name \o << "_" >> \o relative_path \o << "_" >>
            \o IntToStr(start) \o << "-" >> \o IntToStr(end))

\* a warm-up loop that lets the window grow one line past window_size
WarmUpGuardLoose(current_window_size, window_size) ==
    current_window_size <= window_size + 1

\* while current_window_size <= window_size
WarmUpGuard(current_window_size, window_size) ==
    current_window_size <= window_size

\* the first phase: windows from line 0 growing by slice_size; returned says
\* the function returned from inside the loop (the window reached the end of
\* the file)
RECURSIVE WarmUpLoop(_, _, _, _, _)
WarmUpLoop(current_window_size, line_no, total_lines, window_size, slice_size) ==
    IF ~WarmUpGuard(current_window_size, window_size)
    THEN [windows |-> <<>>, returned |-> FALSE]
    ELSE LET end_line == Min({0 + current_window_size, total_lines})
             w == [phase |-> "warmup", line_no |-> line_no,
                   start_line_no |-> 0, end_line_no |-> end_line]
         IN  IF end_line >= total_lines
             THEN [windows |-> << w >>, returned |-> TRUE]
             ELSE LET rest == WarmUpLoop(current_window_size + slice_size,
                                         line_no + slice_size, total_lines,
                                         window_size, slice_size)
                  IN  [windows |-> << w >> \o rest.windows,
                       returned |-> rest.returned]

\* a second phase that starts again at line 0
StrideStartZero(slice_size) == 0

\* line_no = slice_size
StrideStart(slice_size) == slice_size

\* the second phase: windows of window_size lines every slice_size lines
RECURSIVE StrideLoop(_, _, _, _)
StrideLoop(line_no, total_lines, window_size, slice_size) ==
    IF ~(line_no < total_lines)
    THEN <<>>
    ELSE LET end_line == Min({line_no + window_size, total_lines})
             w == [phase |-> "stride", line_no |-> line_no,
                   start_line_no |-> line_no, end_line_no |-> end_line]
         IN  IF end_line >= total_lines
             THEN << w >>
             ELSE << w >> \o StrideLoop(line_no + slice_size, total_lines,
                                        window_size, slice_size)

\* generate_sliding_windows on a file of total_lines lines; the content of the
\* lines plays no part in where the windows are
generate_sliding_windows(total_lines, window_size, slice_size) ==
    IF total_lines = 0
    THEN <<>>
    ELSE LET warm == WarmUpLoop(window_size \div 2, 0, total_lines,
                                window_size, slice_size)
         IN  IF warm.returned
             THEN warm.windows
             ELSE warm.windows
                  \o StrideLoop(StrideStart(slice_size), total_lines,
                                window_size, slice_size)

\* the corpus entries of one file
FileEntries(i, file, window_size, slice_size) ==
    LET windows == generate_sliding_windows(file.lines, window_size, slice_size)
    IN  [k \in 1..Len(windows) |->
            [file |-> i,
             phase |-> windows[k].phase,
             id |-> DocId(ProjectName, file.relative_path,
                          windows[k].start_line_no, windows[k].end_line_no),
             line_no |-> windows[k].line_no,
             start_line_no |-> windows[k].start_line_no,
             end_line_no |-> windows[k].end_line_no]]

\* generate_corpus called on a project: the files are collected
CorpusInit ==
    /\ cg_state = "collect"
    /\ cg_window_size \in 1..MaxWindow
    /\ cg_slice_size \in 1..MaxSlice
    /\ cg_files \in [1..Len(RelPaths) -> [relative_path : {RelPaths[i] : i \in 1..Len(RelPaths)},
                                          lines : 0..MaxLines]]
    /\ \A i \in 1..Len(RelPaths) : cg_files[i].relative_path = RelPaths[i]
    /\ cg_next = 1
    /\ corpus_entries = <<>>

\* one pass of "for file_path, relative_path in files" over an empty file
CorpusSkipFile ==
    /\ cg_state = "collect"
    /\ cg_next <= Len(cg_files)
    /\ cg_files[cg_next].lines = 0
    /\ cg_next' = cg_next + 1
    /\ UNCHANGED << cg_state, cg_window_size, cg_slice_size, cg_files, corpus_entries >>
    /\ UNCHANGED << loop_vars, late_vars, compiler_vars, post_vars, boundary_vars >>

\* one pass of the loop over a file with lines: its windows become entries
CorpusAddFile ==
    /\ cg_state = "collect"
    /\ cg_next <= Len(cg_files)
    /\ cg_files[cg_next].lines > 0
    /\ corpus_entries' = corpus_entries
                         \o FileEntries(cg_next, cg_files[cg_next],
                                        cg_window_size, cg_slice_size)
    /\ cg_next' = cg_next + 1
    /\ UNCHANGED << cg_state, cg_window_size, cg_slice_size, cg_files >>
    /\ UNCHANGED << loop_vars, late_vars, compiler_vars, post_vars, boundary_vars >>

\* the entries are written to corpus.jsonl
CorpusWrite ==
    /\ cg_state = "collect"
    /\ cg_next > Len(cg_files)
    /\ cg_state' = "written"
    /\ UNCHANGED << cg_window_size, cg_slice_size, cg_files, cg_next, corpus_entries >>
    /\ UNCHANGED << loop_vars, late_vars, compiler_vars, post_vars, boundary_vars >>

InitCorpus ==
    /\ LoopInit
    /\ max_verify_count = 1
    /\ CorpusInit
    /\ CompilerOff
    /\ PostOff
    /\ BoundaryOff
    /\ LateOff

NextCorpus ==
    \/ CorpusSkipFile
    \/ CorpusAddFile
    \/ CorpusWrite

SpecCorpus == InitCorpus /\ [][NextCorpus]_vars

(* ---------------------------- C13: shape of the windows ---------------------------- *)

\* C13: every emitted corpus window has start_line <= end_line and
\* end_line - start_line <= window_size; a warm-up window starts at line 0 and a
\* stride-phase window starts at a non-negative multiple of slice_size.
C13_WindowsWellFormed ==
    \A k \in 1..Len(corpus_entries) :
        LET e == corpus_entries[k]
        IN  /\ e.start_line_no <= e.end_line_no
            /\ e.end_line_no - e.start_line_no <= cg_window_size
            /\ e.phase = "warmup" => e.start_line_no = 0
            /\ e.phase = "stride" =>
                   /\ e.start_line_no >= 0
                   /\ e.start_line_no % cg_slice_size = 0

\* a corpus holding a full warm-up window and a full stride window
C13_Witness ==
    /\ cg_state = "written"
    /\ \E k \in 1..Len(corpus_entries) :
           /\ corpus_entries[k].phase = "warmup"
           /\ corpus_entries[k].end_line_no = cg_window_size
    /\ \E k \in 1..Len(corpus_entries) :
           /\ corpus_entries[k].phase = "stride"
           /\ corpus_entries[k].start_line_no = 2 * cg_slice_size
           /\ corpus_entries[k].end_line_no - corpus_entries[k].start_line_no
                  = cg_window_size

(* ---------------------------- C14: a file of window_size lines ---------------------------- *)

\* the entries of file i, in order
EntriesOf(i) == SelectSeq(corpus_entries, LAMBDA e : e.file = i)

StrideEntriesOf(i) == SelectSeq(corpus_entries,
                                LAMBDA e : e.file = i /\ e.phase = "stride")

\* file i has been through the loop and has exactly window_size lines
ProcessedFullWindowFile(i) ==
    /\ i \in 1..Len(cg_files)
    /\ i < cg_next
    /\ cg_files[i].lines = cg_window_size

\* C14 as stated: a file of exactly window_size lines emits the warm-up windows
\* and then exactly one stride-phase window, which starts at line slice_size.
C14_OneStrideWindow ==
    \A i \in 1..Len(RelPaths) :
        ProcessedFullWindowFile(i) =>
            /\ Len(StrideEntriesOf(i)) = 1
            /\ StrideEntriesOf(i)[1].start_line_no = cg_slice_size

\* the warm-up sizes window_size // 2, + slice_size, ... reach window_size exactly
WarmUpHitsWindow(window_size, slice_size) ==
    (window_size - (window_size \div 2)) % slice_size = 0

\* C14 amended: for a file of exactly window_size lines, when the warm-up
\* sizes reach window_size exactly the last warm-up window is the whole file
\* and no stride-phase window follows; otherwise the warm-up windows are
\* followed by the single stride-phase window [slice_size, window_size] when
\* slice_size < window_size and by none when slice_size >= window_size.
C14_StrideOnlyWhenWarmUpMisses ==
    \A i \in 1..Len(RelPaths) :
        ProcessedFullWindowFile(i) =>
            LET stride == StrideEntriesOf(i)
                all == EntriesOf(i)
            IN  /\ Len(all) >= 1
                /\ all[1].phase = "warmup"
                /\ IF WarmUpHitsWindow(cg_window_size, cg_slice_size)
                      \/ cg_slice_size >= cg_window_size
                   THEN stride = <<>>
                   ELSE /\ Len(stride) = 1
                        /\ all[Len(all)] = stride[1]
                        /\ stride[1].start_line_no = cg_slice_size
                        /\ stride[1].end_line_no = cg_window_size
                /\ WarmUpHitsWindow(cg_window_size, cg_slice_size) =>
                       /\ all[Len(all)].start_line_no = 0
                       /\ all[Len(all)].end_line_no = cg_window_size

\* both cases in one corpus cannot be (one window_size per corpus): a file of
\* window_size lines whose warm-up misses window_size and has its stride window
C14_Witness ==
    \E i \in 1..Len(RelPaths) :
        /\ ProcessedFullWindowFile(i)
        /\ ~WarmUpHitsWindow(cg_window_size, cg_slice_size)
        /\ Len(StrideEntriesOf(i)) = 1
        /\ Len(EntriesOf(i)) >= 2

(* ---------------------------- C15: doc_id ---------------------------- *)

\* C15: all documents of one built corpus have pairwise distinct doc_id, over
\* all files of the project and all windows of each file.
C15_DocIdsDistinct ==
    \A j, k \in 1..Len(corpus_entries) :
        j # k => corpus_entries[j].id # corpus_entries[k].id


(* ====================== the compiler client (verifier/codesys_debug.py) ====================== *)

\* largest Path of a raw error
MaxPath == 2

\* window_size=3 of the call of extract_code_window
WindowSize == 3

\* text is modelled as the sequence of its characters
LowerLetters == << "a", "b", "c", "d", "e", "f", "g", "h", "i", "j", "k", "l", "m", "n", "o", "p", "q", "r", "s", "t", "u", "v", "w", "x", "y", "z" >>
UpperLetters == << "A", "B", "C", "D", "E", "F", "G", "H", "I", "J", "K", "L", "M", "N", "O", "P", "Q", "R", "S", "T", "U", "V", "W", "X", "Y", "Z" >>

\* str.upper on one character
UpperChar(c) ==
    IF \E i \in 1..Len(LowerLetters) : LowerLetters[i] = c
    THEN UpperLetters[CHOOSE i \in 1..Len(LowerLetters) : LowerLetters[i] = c]
    ELSE c

\* str.lower on one character
LowerChar(c) ==
    IF \E i \in 1..Len(UpperLetters) : UpperLetters[i] = c
    THEN LowerLetters[CHOOSE i \in 1..Len(UpperLetters) : UpperLetters[i] = c]
    ELSE c

Upper(text) == [i \in 1..Len(text) |-> UpperChar(text[i])]

Lower(text) == [i \in 1..Len(text) |-> LowerChar(text[i])]

\* word in text
Contains(text, word) ==
    \E i \in 1..(Len(text) - Len(word) + 1) : SubSeq(text, i, i + Len(word) - 1) = word

Max(S) == CHOOSE m \in S : \A n \in S : m >= n

\* "BEGIN"
BEGIN_ == << "B", "E", "G", "I", "N" >>
\* "END_VAR"
END_VAR_ == << "E", "N", "D", "_", "V", "A", "R" >>

\* the source texts handed to the compiler, as lists of lines
Sources == {
    \* VAR / END_VAR / x / y
    << << "V", "A", "R" >>, << "E", "N", "D", "_", "V", "A", "R" >>, << "x" >>, << "y" >> >>,
    \* VAR / END_VAR / VAR / END_VAR / x
    << << "V", "A", "R" >>, << "E", "N", "D", "_", "V", "A", "R" >>, << "V", "A", "R" >>, << "E", "N", "D", "_", "V", "A", "R" >>, << "x" >> >>,
    \* VAR / END_VAR / BEGIN / x
    << << "V", "A", "R" >>, << "E", "N", "D", "_", "V", "A", "R" >>, << "B", "E", "G", "I", "N" >>, << "x" >> >>,
    \* x / y
    << << "x" >>, << "y" >> >>,
    \* aBegin / VAR / end_var / x
    << << "a", "B", "e", "g", "i", "n" >>, << "V", "A", "R" >>, << "e", "n", "d", "_", "v", "a", "r" >>, << "x" >> >>
}

\* the value of line_content when the line is outside the source (None)
NoLine == << "None" >>

\* a base that takes the first END_VAR instead of the last
BaseLineFirstEndVar(lines) ==
    LET begins == { i \in 1..Len(lines) : Contains(Upper(lines[i]), BEGIN_) }
        end_vars == { i \in 1..Len(lines) : Contains(Upper(lines[i]), END_VAR_) }
    IN  IF begins # {} THEN Min(begins) - 1
        ELSE IF end_vars # {} THEN (Min(end_vars) - 1) + 1
        ELSE 0

\* base_line_idx for IsDef = false, as an index from 0: the first line whose
\* upper-cased text contains BEGIN, else the line after the last line whose
\* upper-cased text contains END_VAR, else 0
BaseLine(lines) ==
    LET begins == { i \in 1..Len(lines) : Contains(Upper(lines[i]), BEGIN_) }
        end_vars == { i \in 1..Len(lines) : Contains(Upper(lines[i]), END_VAR_) }
    IN  IF begins # {} THEN Min(begins) - 1
        ELSE IF end_vars # {} THEN (Max(end_vars) - 1) + 1
        ELSE 0

\* extract_code_window: indices count from 0 as in the source; the window is
\* lines[start_idx : end_idx], numbered from start_idx + 1
extract_code_window(lines, error_info, window_size) ==
    LET path == error_info.Path
        base_line_idx == IF ~error_info.IsDef THEN BaseLine(lines) ELSE 0
        error_line_idx == base_line_idx + path
        start_idx == Max({0, error_line_idx - window_size})
        end_idx == Min({Len(lines), error_line_idx + window_size + 1})
    IN  [error_line_idx |-> error_line_idx,
         first_number |-> start_idx + 1,
         window |-> SubSeq(lines, start_idx + 1, end_idx),
         line_content |-> IF 0 <= error_line_idx /\ error_line_idx < Len(lines)
                          THEN lines[error_line_idx + 1]
                          ELSE NoLine]

\* the raw errors of a response body, Path included
RawErrorsWithPath == [IsDef : BOOLEAN, Path : 0..MaxPath]

\* code_window and line_content of every error of the response
LocateErrors(lines, raw) ==
    IF raw.status = "ok"
    THEN [i \in 1..Len(raw.Errors) |-> extract_code_window(lines, raw.Errors[i], WindowSize)]
    ELSE <<>>

\* a caller holds st_code and is about to call syntax_check
CompilerInit ==
    /\ cc_state = "request"
    /\ cc_source \in Sources
    /\ cc_raw = <<>>
    /\ cc_response = <<>>
    /\ cc_located = <<>>

\* syntax_check when the service answers 200 with a body of the wire protocol
SyntaxCheckAnswered ==
    /\ cc_state = "request"
    /\ \E raw \in RawResponsesOver(RawErrorsWithPath) :
           /\ raw.status = "ok"
           /\ cc_raw' = raw
           /\ cc_response' = syntax_check(raw)
           /\ cc_located' = LocateErrors(cc_source, raw)
    /\ cc_state' = "answered"
    /\ UNCHANGED cc_source
    /\ UNCHANGED << loop_vars, late_vars, corpus_vars, post_vars, boundary_vars >>

\* syntax_check when the call times out, cannot connect, answers another status
\* or answers a body that is not of the wire protocol
SyntaxCheckFailed ==
    /\ cc_state = "request"
    /\ \E raw \in RawResponsesOver(RawErrorsWithPath) :
           /\ raw.status # "ok"
           /\ cc_raw' = raw
           /\ cc_response' = syntax_check(raw)
           /\ cc_located' = LocateErrors(cc_source, raw)
    /\ cc_state' = "answered"
    /\ UNCHANGED cc_source
    /\ UNCHANGED << loop_vars, late_vars, corpus_vars, post_vars, boundary_vars >>

InitCompiler ==
    /\ LoopInit
    /\ max_verify_count = 1
    /\ CorpusOff
    /\ CompilerInit
    /\ PostOff
    /\ BoundaryOff
    /\ LateOff

NextCompiler ==
    \/ SyntaxCheckAnswered
    \/ SyntaxCheckFailed

SpecCompiler == InitCompiler /\ [][NextCompiler]_vars

(* ---------------------------- C16: line_no of an implementation error ---------------------------- *)

\* b is the base the specification describes, as an index from 0: the first
\* line holding BEGIN if there is one, otherwise the line after the last line
\* holding END_VAR (0 when there is neither)
IsBaseOf(b, lines) ==
    LET HasBegin(i) == Contains(Upper(lines[i]), BEGIN_)
        HasEndVar(i) == Contains(Upper(lines[i]), END_VAR_)
        N == Len(lines)
    IN  \/ /\ b + 1 \in 1..N
           /\ HasBegin(b + 1)
           /\ \A i \in 1..b : ~HasBegin(i)
        \/ /\ \A i \in 1..N : ~HasBegin(i)
           /\ b \in 1..N
           /\ HasEndVar(b)
           /\ \A i \in (b + 1)..N : ~HasEndVar(i)
        \/ /\ \A i \in 1..N : ~HasBegin(i) /\ ~HasEndVar(i)
           /\ b = 0

\* C16 as stated: for a raw compile error with IsDef = false the normalized
\* line_no is base + Path, so with Path = 0 and no BEGIN it is the index of the
\* last END_VAR plus 1.
C16_LineNoIsAbsolute ==
    cc_state = "answered" /\ cc_raw.status = "ok" =>
        \A i \in 1..Len(cc_raw.Errors) :
            ~cc_raw.Errors[i].IsDef =>
                \E b \in 0..Len(cc_source) :
                    /\ IsBaseOf(b, cc_source)
                    /\ cc_response.errors[i].line_no = b + cc_raw.Errors[i].Path

\* C16 amended: for a raw compile error with IsDef = false the normalized
\* line_no is Path itself; base + Path is the line line_content and code_window
\* are taken from: line_content is the source line at index base + Path (None
\* when that is past the end) and the window is the lines at most 3 before and
\* after it.
C16_LineNoIsPath ==
    cc_state = "answered" /\ cc_raw.status = "ok" =>
        /\ Len(cc_response.errors) = Len(cc_raw.Errors)
        /\ Len(cc_located) = Len(cc_raw.Errors)
        /\ \A i \in 1..Len(cc_raw.Errors) :
               ~cc_raw.Errors[i].IsDef =>
                   \E b \in 0..Len(cc_source) :
                       LET abs == b + cc_raw.Errors[i].Path
                       IN  /\ IsBaseOf(b, cc_source)
                           /\ cc_response.errors[i].line_no = cc_raw.Errors[i].Path
                           /\ cc_located[i].error_line_idx = abs
                           /\ cc_located[i].line_content =
                                  (IF abs < Len(cc_source) THEN cc_source[abs + 1] ELSE NoLine)
                           /\ cc_located[i].first_number = Max({1, abs - WindowSize + 1})
                           /\ Len(cc_located[i].window) <= 2 * WindowSize + 1

\* Path = 0, no BEGIN, two END_VAR lines: line_no is 0 and the line is the one
\* after the last END_VAR
C16_Witness ==
    /\ cc_state = "answered"
    /\ cc_raw.status = "ok"
    /\ Len(cc_source) = 5
    /\ \E i \in 1..Len(cc_raw.Errors) :
           /\ ~cc_raw.Errors[i].IsDef
           /\ cc_raw.Errors[i].Path = 0
           /\ cc_response.errors[i].line_no = 0
           /\ cc_located[i].error_line_idx = 4
           /\ cc_located[i].line_content = cc_source[5]

(* ---------------------------- C17: failures of the compile service ---------------------------- *)

\* C17: syntax_check never raises: a connect timeout, a connection error, a
\* non-200 status and a malformed body each yield a response with
\* success = false and exactly one error, whose error_desc is the
\* "compile tool call failed" text and whose error_type is "system error".
C17_FailureIsSystemError ==
    cc_state = "answered" =>
        /\ cc_response # Raised
        /\ cc_raw.status \in { "connect_timeout", "connection_error",
                               "http_error", "malformed_body" } =>
               /\ cc_response.success = FALSE
               /\ Len(cc_response.errors) = 1
               /\ cc_response.errors[1].error_desc = SystemErrorDesc
               /\ cc_response.errors[1].error_type = SystemError

\* a non-200 answer turned into the system error
C17_Witness ==
    /\ cc_state = "answered"
    /\ cc_raw.status = "http_error"
    /\ cc_response.success = FALSE
    /\ Len(cc_response.errors) = 1


(* ====================== post-processing of generations ====================== *)
(* generator/process_generations.py and batch_process_and_fix.py; text is the
   sequence of its characters *)

Newline == << "\n" >>

\* the characters str.strip, lstrip and rstrip remove
Whitespace == { " ", "\n", "\t", "\r" }

RECURSIVE LStripText(_)
LStripText(text) ==
    IF text # <<>> /\ Head(text) \in Whitespace THEN LStripText(Tail(text)) ELSE text

RECURSIVE RStripText(_)
RStripText(text) ==
    IF text # <<>> /\ text[Len(text)] \in Whitespace
    THEN RStripText(Take(text, Len(text) - 1))
    ELSE text

StripText(text) == RStripText(LStripText(text))

EndsWith(text, suffix) ==
    Len(suffix) <= Len(text) /\ Drop(text, Len(text) - Len(suffix)) = suffix

\* str.find(word, start) with positions counted from 1; 0 when not found
FindFrom(text, word, start) ==
    LET S == { i \in start..(Len(text) - Len(word) + 1) :
                   SubSeq(text, i, i + Len(word) - 1) = word }
    IN  IF S = {} THEN 0 ELSE Min(S)

\* str.splitlines for text whose line ends are "\n"
RECURSIVE SplitLines(_)
SplitLines(text) ==
    IF text = <<>> THEN <<>>
    ELSE LET k == FindFrom(text, Newline, 1)
         IN  IF k = 0 THEN << text >>
             ELSE << Take(text, k - 1) >> \o SplitLines(Drop(text, k))

\* sep.join(parts)
RECURSIVE JoinWith(_, _)
JoinWith(sep, parts) ==
    IF parts = <<>> THEN <<>>
    ELSE IF Len(parts) = 1 THEN parts[1]
    ELSE parts[1] \o sep \o JoinWith(sep, Tail(parts))

\* the backtick character, written as a name: a TLA+ string cannot hold it
Backtick == "BACKTICK"

Fence == << Backtick, Backtick, Backtick >>

END_FUNCTION_ == << "E", "N", "D", "_", "F", "U", "N", "C", "T", "I", "O", "N" >>
END_FUNCTION_BLOCK_ == << "E", "N", "D", "_", "F", "U", "N", "C", "T", "I", "O", "N", "_", "B", "L", "O", "C", "K" >>
END_OTHER_ == << "E", "N", "D", "_", "O", "T", "H", "E", "R" >>

\* provide_code of the cases
Prefixes == {
    \* FUNCTION_BLOCK FB / VAR / END_VAR / 
    << "F", "U", "N", "C", "T", "I", "O", "N", "_", "B", "L", "O", "C", "K", " ", "F", "B", "\n", "V", "A", "R", "\n", "E", "N", "D", "_", "V", "A", "R", "\n" >>,
    \* FUNCTION F : INT / VAR / END_VAR / 
    << "F", "U", "N", "C", "T", "I", "O", "N", " ", "F", " ", ":", " ", "I", "N", "T", "\n", "V", "A", "R", "\n", "E", "N", "D", "_", "V", "A", "R", "\n" >>,
    \* function_block fb / var / end_var
    << "f", "u", "n", "c", "t", "i", "o", "n", "_", "b", "l", "o", "c", "k", " ", "f", "b", "\n", "v", "a", "r", "\n", "e", "n", "d", "_", "v", "a", "r" >>,
    \* PROGRAM P / VAR / END_VAR / 
    << "P", "R", "O", "G", "R", "A", "M", " ", "P", "\n", "V", "A", "R", "\n", "E", "N", "D", "_", "V", "A", "R", "\n" >>
}

\* raw generations of the LLM
Generations == {
    \* x:=1;
    << "x", ":", "=", "1", ";" >>,
    \* x:=1; / END_FUNCTION_BLOCK
    << "x", ":", "=", "1", ";", "\n", "E", "N", "D", "_", "F", "U", "N", "C", "T", "I", "O", "N", "_", "B", "L", "O", "C", "K" >>,
    \* x:=1; / END_FUNCTION / 
    << "x", ":", "=", "1", ";", "\n", "E", "N", "D", "_", "F", "U", "N", "C", "T", "I", "O", "N", "\n" >>,
    \* (fence)st / x:=1; / (fence)
    << Backtick, Backtick, Backtick, "s", "t", "\n", "x", ":", "=", "1", ";", "\n", Backtick, Backtick, Backtick >>,
    \* (fence)st / x:=1; / end_function_block / (fence)
    << Backtick, Backtick, Backtick, "s", "t", "\n", "x", ":", "=", "1", ";", "\n", "e", "n", "d", "_", "f", "u", "n", "c", "t", "i", "o", "n", "_", "b", "l", "o", "c", "k", "\n", Backtick, Backtick, Backtick >>,
    \* the empty generation
    <<>>,
    \* x:=1; / end_function
    << "x", ":", "=", "1", ";", "\n", "e", "n", "d", "_", "f", "u", "n", "c", "t", "i", "o", "n" >>,
    \*  x:=1;  / 
    << " ", "x", ":", "=", "1", ";", " ", "\n" >>
}

\* normalize_generation
normalize_generation(raw) ==
    IF raw = <<>> THEN <<>>
    ELSE LET unescaped == Replace(Replace(Replace(raw, << "\\", "r" >>, << "\r" >>),
                                          Newline, Newline),
                                  << "\\", "t" >>, << "\t" >>)
             text == StripText(unescaped)
         IN  IF StartsWith(text, Fence)
             THEN LET lines == SplitLines(text)
                      no_first == IF lines # <<>> /\ StartsWith(lines[1], Fence)
                                  THEN Tail(lines) ELSE lines
                      no_last == IF no_first # <<>>
                                    /\ StartsWith(StripText(no_first[Len(no_first)]), Fence)
                                 THEN Take(no_first, Len(no_first) - 1)
                                 ELSE no_first
                  IN  StripText(JoinWith(Newline, no_last))
             ELSE text

\* end_suffix of write_candidates: chosen from the prefix alone
EndSuffix(prefix_text, body) ==
    LET upper_prefix == Upper(prefix_text)
    IN  IF Contains(upper_prefix, Drop(END_FUNCTION_BLOCK_, 4) \o << " " >>)
        THEN END_FUNCTION_BLOCK_
        ELSE IF Contains(upper_prefix, Drop(END_FUNCTION_, 4) \o << " " >>)
        THEN END_FUNCTION_
        ELSE END_OTHER_

\* write_candidates for one candidate: whether a file is written, and its content
write_candidates(prefix_text, candidate) ==
    LET normalized == normalize_generation(candidate)
    IN  IF normalized = <<>>
        THEN [written |-> FALSE, content |-> <<>>]
        ELSE IF prefix_text # <<>>
        THEN [written |-> TRUE,
              content |-> JoinWith(Newline, << RStripText(prefix_text),
                                               RStripText(normalized),
                                               EndSuffix(prefix_text, normalized) >>)
                          \o Newline]
        ELSE [written |-> TRUE, content |-> normalized]

\* extract_code_from_markdown
extract_code_from_markdown(content) ==
    LET first_idx == FindFrom(content, Fence, 1)
        second_idx == IF first_idx = 0 THEN 0
                      ELSE FindFrom(content, Fence, first_idx + 3)
    IN  IF first_idx = 0 \/ second_idx = 0
        THEN content
        ELSE LET extracted == StripText(SubSeq(content, first_idx + 3, second_idx - 1))
             IN  IF StartsWith(extracted, << "s", "t", "\n" >>)
                    \/ StartsWith(extracted, << "s", "t", "\r", "\n" >>)
                 THEN LStripText(Drop(extracted, 3))
                 ELSE IF StartsWith(extracted, << "S", "T", "\n" >>)
                         \/ StartsWith(extracted, << "S", "T", "\r", "\n" >>)
                 THEN LStripText(Drop(extracted, 3))
                 ELSE extracted

\* process_prompt_text
process_prompt_text(prompt) ==
    Replace(Replace(prompt, << "\\", "t" >>, << "\t" >>), << "\\", "n" >>, Newline)

\* process_st_file when the prompt of the function is found: the content written
process_st_file(prompt, file_content) ==
    LET st_content == extract_code_from_markdown(file_content)
        processed_prompt == process_prompt_text(prompt)
        lower_prompt == Lower(LStripText(processed_prompt))
        st_body == RStripText(st_content)
        end_suffix ==
            IF StartsWith(lower_prompt, Lower(Drop(END_FUNCTION_, 4)) \o << " " >>)
            THEN IF ~EndsWith(Lower(st_body), Lower(END_FUNCTION_))
                 THEN END_FUNCTION_ ELSE <<>>
            ELSE IF StartsWith(lower_prompt, Lower(Drop(END_FUNCTION_BLOCK_, 4)) \o << " " >>)
            THEN IF ~EndsWith(Lower(st_body), Lower(END_FUNCTION_BLOCK_))
                 THEN END_FUNCTION_BLOCK_ ELSE <<>>
            ELSE <<>>
        parts == IF end_suffix # <<>>
                 THEN << RStripText(processed_prompt), st_body, end_suffix >>
                 ELSE << RStripText(processed_prompt), st_body >>
    IN  JoinWith(Newline \o Newline, parts) \o Newline

\* a case with its provide_code and the generation of the LLM
PostInit ==
    /\ pp_state = "generated"
    /\ pp_tool = "none"
    /\ pp_prefix \in Prefixes
    /\ pp_candidate \in Generations
    /\ pp_file = <<>>

\* process_project: write_candidates writes readful_result/{f}.st
PostWriteCandidates ==
    /\ pp_state = "generated"
    /\ write_candidates(pp_prefix, pp_candidate).written
    /\ pp_file' = write_candidates(pp_prefix, pp_candidate).content
    /\ pp_tool' = "write_candidates"
    /\ pp_state' = "written"
    /\ UNCHANGED << pp_prefix, pp_candidate >>
    /\ UNCHANGED << loop_vars, late_vars, corpus_vars, compiler_vars, boundary_vars >>

\* process_project: an empty generation is passed over, no file is written
PostSkipCandidate ==
    /\ pp_state = "generated"
    /\ ~write_candidates(pp_prefix, pp_candidate).written
    /\ pp_tool' = "write_candidates"
    /\ pp_state' = "skipped"
    /\ UNCHANGED << pp_prefix, pp_candidate, pp_file >>
    /\ UNCHANGED << loop_vars, late_vars, corpus_vars, compiler_vars, boundary_vars >>

\* process_directory: process_st_file writes the file of the output directory
PostProcessStFile ==
    /\ pp_state = "generated"
    /\ pp_file' = process_st_file(pp_prefix, pp_candidate)
    /\ pp_tool' = "process_st_file"
    /\ pp_state' = "written"
    /\ UNCHANGED << pp_prefix, pp_candidate >>
    /\ UNCHANGED << loop_vars, late_vars, corpus_vars, compiler_vars, boundary_vars >>

\* the same post-processor run on the file it produced; pp_candidate keeps the
\* content it was given
PostAgain ==
    /\ pp_state = "written"
    /\ pp_candidate' = pp_file
    /\ pp_file' = IF pp_tool = "process_st_file"
                  THEN process_st_file(pp_prefix, pp_file)
                  ELSE write_candidates(pp_prefix, pp_file).content
    /\ pp_state' = "rewritten"
    /\ UNCHANGED << pp_prefix, pp_tool >>
    /\ UNCHANGED << loop_vars, late_vars, corpus_vars, compiler_vars, boundary_vars >>

InitPost ==
    /\ LoopInit
    /\ max_verify_count = 1
    /\ CorpusOff
    /\ CompilerOff
    /\ PostInit
    /\ BoundaryOff
    /\ LateOff

NextPost ==
    \/ PostWriteCandidates
    \/ PostSkipCandidate
    \/ PostProcessStFile
    \/ PostAgain

SpecPost == InitPost /\ [][NextPost]_vars

(* ---------------------------- C18: one end marker ---------------------------- *)

\* the end marker matching the header of provide_code, <<>> for another header
MatchingMarker(prefix_text) ==
    LET header == Lower(LStripText(prefix_text))
    IN  IF StartsWith(header, Lower(Drop(END_FUNCTION_BLOCK_, 4)) \o << " " >>)
        THEN END_FUNCTION_BLOCK_
        ELSE IF StartsWith(header, Lower(Drop(END_FUNCTION_, 4)) \o << " " >>)
        THEN END_FUNCTION_
        ELSE <<>>

\* text ends with marker (in any case) and what is before it does not
EndsWithExactlyOne(text, marker) ==
    LET body == Lower(RStripText(text))
        m == Lower(marker)
    IN  /\ EndsWith(body, m)
        /\ ~EndsWith(RStripText(Take(body, Len(body) - Len(m))), m)

\* C18: every post-processed readful_result file ends with exactly one end
\* marker, the one matching the kind of its provide_code header; when the
\* generated body already ends with that marker it is not appended again.
C18_ExactlyOneEndMarker ==
    (pp_state = "written" /\ MatchingMarker(pp_prefix) # <<>>) =>
        EndsWithExactlyOne(pp_file, MatchingMarker(pp_prefix))

(* ---------------------------- C19: running it again ---------------------------- *)

\* C19: post-processing is idempotent: run again on a file it produced, it
\* yields the same content, with no second declaration stub and no second
\* END_ marker.
C19_PostProcessingIdempotent ==
    pp_state = "rewritten" => pp_file = pp_candidate


(* ====================== the declaration boundary ====================== *)
(* dataset/queries_gen.py, process_project_code_fun.py and
   analysis_script/evaluate_history.py each split an ST file into declaration
   and body; a file is the sequence of its lines, a line that of its characters *)

\* most lines of a file after its header
MaxFileLines == 3

\* "VAR"
VAR_ == << "V", "A", "R" >>

\* the header line every file starts with: "FUNCTION_BLOCK FB"
HeaderLine == << "F", "U", "N", "C", "T", "I", "O", "N", "_", "B", "L", "O", "C", "K", " ", "F", "B" >>

\* the lines a file is made of
FileLines == {
    \* "VAR"
    << "V", "A", "R" >>,
    \* " VAR "
    << " ", "V", "A", "R", " " >>,
    \* "VAR_INPUT"
    << "V", "A", "R", "_", "I", "N", "P", "U", "T" >>,
    \* "VAR CONSTANT"
    << "V", "A", "R", " ", "C", "O", "N", "S", "T", "A", "N", "T" >>,
    \* "var"
    << "v", "a", "r" >>,
    \* "END_VAR"
    << "E", "N", "D", "_", "V", "A", "R" >>,
    \* "END_VAR;"
    << "E", "N", "D", "_", "V", "A", "R", ";" >>,
    \* "x:=1;"
    << "x", ":", "=", "1", ";" >>
}

\* the files: the header and up to MaxFileLines lines
StFileTexts ==
    { << HeaderLine >> \o rest :
        rest \in { r \in SeqsUpTo(FileLines, MaxFileLines) : r # <<>> } }

\* the prefixes find_cut_position takes for parameter blocks
ParameterPrefixes == {
    VAR_ \o << "_", "I", "N", "P", "U", "T" >>,
    VAR_ \o << "_", "O", "U", "T", "P", "U", "T" >>,
    VAR_ \o << "_", "I", "N", "_", "O", "U", "T" >>,
    VAR_ \o << "_", "E", "X", "T", "E", "R", "N", "A", "L" >>,
    VAR_ \o << "_", "G", "L", "O", "B", "A", "L" >>,
    VAR_ \o << "_", "T", "E", "M", "P" >>
}

\* a text_end_line that takes the first END_VAR instead of the last
text_end_line_first_end_var(lines) ==
    LET vars_ == { i \in 1..Len(lines) : StripText(lines[i]) = VAR_ }
        end_vars == { i \in 1..Len(lines) : StripText(lines[i]) = END_VAR_ }
    IN  IF vars_ # {} THEN Min(vars_) - 1
        ELSE IF end_vars # {} THEN (Min(end_vars) - 1) + 1
        ELSE Len(lines)

\* extract_function_info: text_end_line, the index (from 0) where the
\* declaration text ends; re.match(r'^VAR\s*$', stripped) holds exactly when the
\* stripped line is VAR
text_end_line(lines) ==
    LET vars_ == { i \in 1..Len(lines) : StripText(lines[i]) = VAR_ }
        end_vars == { i \in 1..Len(lines) : StripText(lines[i]) = END_VAR_ }
    IN  IF vars_ # {} THEN Min(vars_) - 1
        ELSE IF end_vars # {} THEN (Max(end_vars) - 1) + 1
        ELSE Len(lines)

\* find_cut_position: the index (from 0) of the first line kept
find_cut_position(lines) ==
    LET vars_ == { i \in 1..Len(lines) :
                      /\ StartsWith(StripText(lines[i]), VAR_)
                      /\ ~\E prefix \in ParameterPrefixes :
                             StartsWith(StripText(lines[i]), prefix) }
        end_vars == { i \in 1..Len(lines) : StartsWith(StripText(lines[i]), END_VAR_) }
    IN  IF vars_ # {} THEN Min(vars_) - 1
        ELSE IF end_vars # {} THEN (Max(end_vars) - 1) + 1
        ELSE 0

\* remove_declaration_part: the index (from 0) of the first line kept
remove_declaration_start(lines) ==
    LET vars_ == { i \in 1..Len(lines) : Upper(StripText(lines[i])) = VAR_ }
        end_vars == { i \in 1..Len(lines) : Upper(StripText(lines[i])) = END_VAR_ }
    IN  IF vars_ # {} THEN Min(vars_) - 1
        ELSE IF end_vars # {} THEN (Max(end_vars) - 1) + 1
        ELSE 0

\* the places that split a file
Splitters == { "extract_function_info", "find_cut_position", "remove_declaration_part" }

\* no boundary computed yet
NoCut == -1

\* provide_code + body of a case has been written to an ST file and the file
\* has been read: the first bd_provide lines are provide_code, the rest the body
BoundaryInit ==
    /\ bd_state = "read"
    /\ bd_lines \in StFileTexts
    /\ bd_provide \in 1..(Len(bd_lines) - 1)
    /\ bd_cut = [sp \in Splitters |-> NoCut]

\* one place has split the file: its boundary is recorded
Split_(sp, cut) ==
    /\ bd_state = "read"
    /\ bd_cut[sp] = NoCut
    /\ bd_cut' = [bd_cut EXCEPT ![sp] = cut]
    /\ bd_state' = IF \A other \in Splitters \ {sp} : bd_cut[other] # NoCut
                   THEN "split" ELSE "read"
    /\ UNCHANGED << bd_lines, bd_provide >>
    /\ UNCHANGED << loop_vars, late_vars, corpus_vars, compiler_vars, post_vars >>

\* queries_gen splits the file
SplitByQueriesGen == Split_("extract_function_info", text_end_line(bd_lines))

\* process_project_code_fun splits the file
SplitByFindCutPosition == Split_("find_cut_position", find_cut_position(bd_lines))

\* evaluate_history splits the file
SplitByRemoveDeclaration ==
    Split_("remove_declaration_part", remove_declaration_start(bd_lines))

InitBoundary ==
    /\ LoopInit
    /\ max_verify_count = 1
    /\ CorpusOff
    /\ CompilerOff
    /\ PostOff
    /\ BoundaryInit
    /\ LateOff

NextBoundary ==
    \/ SplitByQueriesGen
    \/ SplitByFindCutPosition
    \/ SplitByRemoveDeclaration

SpecBoundary == InitBoundary /\ [][NextBoundary]_vars

(* ---------------------------- C20: one boundary ---------------------------- *)

\* the file has a line whose trimmed content is exactly VAR, or an END_VAR line
HasVarOrEndVar(lines) ==
    \E i \in 1..Len(lines) :
        StripText(lines[i]) = VAR_ \/ StripText(lines[i]) = END_VAR_

\* b is the boundary the rule gives: the first line whose trimmed content is
\* exactly VAR, else the line after the last END_VAR
IsBoundaryOf(b, lines) ==
    \/ /\ b + 1 \in 1..Len(lines)
       /\ StripText(lines[b + 1]) = VAR_
       /\ \A i \in 1..b : StripText(lines[i]) # VAR_
    \/ /\ \A i \in 1..Len(lines) : StripText(lines[i]) # VAR_
       /\ b \in 1..Len(lines)
       /\ StripText(lines[b]) = END_VAR_
       /\ \A i \in (b + 1)..Len(lines) : StripText(lines[i]) # END_VAR_

\* C20: the declaration boundary of an ST file is the first line whose trimmed
\* content is exactly VAR, else the line after the last END_VAR, and each place
\* that splits declaration from body computes this same boundary for every
\* file (here: every file that has such a VAR line or an END_VAR line).
C20_SameBoundaryEverywhere ==
    (bd_state = "split" /\ HasVarOrEndVar(bd_lines)) =>
        \A sp \in Splitters : IsBoundaryOf(bd_cut[sp], bd_lines)


(* ---------------------------- C21: round trip of the split ---------------------------- *)

\* the provide_code and the body the file was written from
ProvideLines == Take(bd_lines, bd_provide)
BodyLines == Drop(bd_lines, bd_provide)

\* 'text' of extract_function_info: '\n'.join(lines[:text_end_line]).strip()
SplitText == StripText(JoinWith(Newline, Take(bd_lines, bd_cut["extract_function_info"])))

\* what remove_declaration_part returns: "\n".join(lines[start:])
SplitBody == JoinWith(Newline, Drop(bd_lines, bd_cut["remove_declaration_part"]))

\* the split gives back provide_code and body, up to whitespace at the ends
RoundTrip ==
    /\ SplitText = StripText(JoinWith(Newline, ProvideLines))
    /\ RStripText(SplitBody) = RStripText(JoinWith(Newline, BodyLines))

IsVarLine(line) == Upper(StripText(line)) = VAR_
IsEndVarLine(line) == Upper(StripText(line)) = END_VAR_

\* provide_code has no VAR line and the body opens with the line VAR
BodyOpensWithVar ==
    /\ \A i \in 1..Len(ProvideLines) : ~IsVarLine(ProvideLines[i])
    /\ StripText(BodyLines[1]) = VAR_

\* no VAR line anywhere, provide_code closes with END_VAR and the body has no END_VAR
ProvideClosesWithEndVar ==
    /\ \A i \in 1..Len(bd_lines) : ~IsVarLine(bd_lines[i])
    /\ StripText(ProvideLines[Len(ProvideLines)]) = END_VAR_
    /\ \A i \in 1..Len(BodyLines) : ~IsEndVarLine(BodyLines[i])

\* C21 as stated: the declaration-boundary split of provide_code + body gives
\* back the original provide_code and the original body, up to
\* trailing-whitespace normalization, for every provide_code and every body.
C21_SplitRoundTrip ==
    bd_state = "split" => RoundTrip

\* C21 amended: the split gives back provide_code and body when provide_code
\* has no VAR line and the body opens with the line VAR, or when there is no
\* VAR line at all, provide_code closes with the line END_VAR and the body has
\* no END_VAR line. With neither a VAR nor an END_VAR line in the text,
\* extract_function_info takes the whole text as provide_code and
\* remove_declaration_part keeps the whole text as body.
C21_RoundTripWhenBoundaryIsTheJoin ==
    bd_state = "split" =>
        /\ (BodyOpensWithVar \/ ProvideClosesWithEndVar) =>
               /\ bd_cut["extract_function_info"] = bd_provide
               /\ bd_cut["remove_declaration_part"] = bd_provide
               /\ RoundTrip
        /\ (\A i \in 1..Len(bd_lines) : ~IsVarLine(bd_lines[i]) /\ ~IsEndVarLine(bd_lines[i])) =>
               /\ bd_cut["extract_function_info"] = Len(bd_lines)
               /\ bd_cut["remove_declaration_part"] = 0

\* a provide_code of three lines holding two END_VAR lines, a body without
\* declarations, split and given back
C21_Witness ==
    /\ bd_state = "split"
    /\ ProvideClosesWithEndVar
    /\ bd_provide = 3
    /\ StripText(bd_lines[2]) = END_VAR_
    /\ RoundTrip

(* ---------------------------- C29: every line in a window ---------------------------- *)

\* line number n (from 0) of file i lies inside an emitted window; a window
\* holds lines[start_line_no : end_line_no]
LineInWindow(i, n) ==
    \E k \in 1..Len(corpus_entries) :
        /\ corpus_entries[k].file = i
        /\ corpus_entries[k].start_line_no <= n
        /\ n < corpus_entries[k].end_line_no

\* file i has been through the loop and has lines
ProcessedNonEmptyFile(i) ==
    /\ i \in 1..Len(cg_files)
    /\ i < cg_next
    /\ cg_files[i].lines > 0

\* C29: for every non-empty file and every window_size >= 2 and
\* slice_size >= 1, each line of the file lies inside at least one emitted
\* corpus window.
C29_EveryLineInAWindow ==
    cg_window_size >= 2 =>
        \A i \in 1..Len(RelPaths) :
            ProcessedNonEmptyFile(i) =>
                \A n \in 0..(cg_files[i].lines - 1) : LineInWindow(i, n)

(* ------------------------------ retrieval ------------------------------ *)

\* instances (directories of data_base_dir that match the dataset) in one run
MaxInstances == 2

\* the id of the query added for a run with one query
Dummy == "dummy"

\* the ids a query can have: the stem of a query file or a BEIR query id
QueryIds == {"f", "g", Dummy}

\* an instance: whether its corpus.jsonl is there, and the ids of its BEIR queries
Instances == [corpus : BOOLEAN, queries : SUBSET QueryIds \ {{}}]

\* args.query_dir: given or not, and the task ids load_queries_from_query_dir reads
QueryDirs == { qd \in [given : BOOLEAN, queries : SUBSET QueryIds] :
                   ~qd.given => qd.queries = {} }

\* a missing corpus.jsonl that is skipped whatever the query format
on_missing_corpus_skip(query_dir) == "skip"

\* if query_dir: raise FileNotFoundError(error_msg); else: warning and continue
on_missing_corpus(query_dir) == IF query_dir.given THEN "raise" ELSE "skip"

\* the queries of an instance: those of the query directory (new format), the
\* BEIR queries when there is no query directory or nothing was loaded from it
queries_of(query_dir, instance) ==
    IF query_dir.given /\ query_dir.queries # {}
    THEN query_dir.queries
    ELSE instance.queries

\* if len(queries) == 1: queries.update({"dummy": "dummy"})
add_dummy(queries) ==
    IF Cardinality(queries) = 1 THEN queries \cup {Dummy} ELSE queries

\* retriever.retrieve(corpus, queries): the keys of the result map are the
\* query ids
retrieve_keys(queries) == queries

\* if "dummy" in queries: queries.pop("dummy"); results.pop("dummy")
remove_dummy(queries, results) ==
    IF Dummy \in queries THEN results \ {Dummy} ELSE results

\* main(args) reaches the loop over instance_list
RetrieveInit ==
    /\ rt_state = "instances"
    /\ rt_query_dir \in QueryDirs
    /\ rt_instances \in UNION { [1..n -> Instances] : n \in 1..MaxInstances }
    /\ rt_next = 1
    /\ rt_processed = 0
    /\ rt_queries = <<>>
    /\ rt_results = <<>>

RetrieveOthers == << loop_vars, corpus_vars, compiler_vars, post_vars, boundary_vars,
                     orch_vars, backup_vars, retry_vars, endfix_vars >>

\* corpus.jsonl of the instance is missing and a query directory is in use
RetrieveCorpusMissingRaise ==
    /\ rt_state = "instances"
    /\ rt_next <= Len(rt_instances)
    /\ ~rt_instances[rt_next].corpus
    /\ on_missing_corpus(rt_query_dir) = "raise"
    /\ rt_state' = "FileNotFoundError"
    /\ UNCHANGED << rt_query_dir, rt_instances, rt_next, rt_processed, rt_queries,
                    rt_results >>
    /\ UNCHANGED RetrieveOthers

\* corpus.jsonl of the instance is missing in the old format: warning, continue
RetrieveCorpusMissingSkip ==
    /\ rt_state = "instances"
    /\ rt_next <= Len(rt_instances)
    /\ ~rt_instances[rt_next].corpus
    /\ on_missing_corpus(rt_query_dir) = "skip"
    /\ rt_next' = rt_next + 1
    /\ UNCHANGED << rt_state, rt_query_dir, rt_instances, rt_processed, rt_queries,
                    rt_results >>
    /\ UNCHANGED RetrieveOthers

\* one pass of the loop over an instance with a corpus: ranking and writing
RetrieveInstance ==
    /\ rt_state = "instances"
    /\ rt_next <= Len(rt_instances)
    /\ rt_instances[rt_next].corpus
    /\ LET original == queries_of(rt_query_dir, rt_instances[rt_next])
           queries == add_dummy(original)
           results == retrieve_keys(queries)
       IN  /\ rt_queries' = Append(rt_queries, original)
           /\ rt_results' = Append(rt_results, remove_dummy(queries, results))
    /\ rt_processed' = rt_processed + 1
    /\ rt_next' = rt_next + 1
    /\ UNCHANGED << rt_state, rt_query_dir, rt_instances >>
    /\ UNCHANGED RetrieveOthers

\* after the loop: if processed_instances == 0: raise RuntimeError
RetrieveNothingProcessed ==
    /\ rt_state = "instances"
    /\ rt_next > Len(rt_instances)
    /\ rt_processed = 0
    /\ rt_state' = "RuntimeError"
    /\ UNCHANGED << rt_query_dir, rt_instances, rt_next, rt_processed, rt_queries,
                    rt_results >>
    /\ UNCHANGED RetrieveOthers

\* after the loop with an instance processed: main returns
RetrieveDone ==
    /\ rt_state = "instances"
    /\ rt_next > Len(rt_instances)
    /\ rt_processed > 0
    /\ rt_state' = "done"
    /\ UNCHANGED << rt_query_dir, rt_instances, rt_next, rt_processed, rt_queries,
                    rt_results >>
    /\ UNCHANGED RetrieveOthers

InitRetrieve ==
    /\ LoopInit
    /\ max_verify_count = 1
    /\ CorpusOff
    /\ CompilerOff
    /\ PostOff
    /\ BoundaryOff
    /\ RetrieveInit
    /\ OrchOff
    /\ BackupOff
    /\ RetryOff
    /\ EndFixOff

NextRetrieve ==
    \/ RetrieveCorpusMissingRaise
    \/ RetrieveCorpusMissingSkip
    \/ RetrieveInstance
    \/ RetrieveNothingProcessed
    \/ RetrieveDone

SpecRetrieve == InitRetrieve /\ [][NextRetrieve]_vars

(* ---------------------------- C22: the dummy query ---------------------------- *)

\* C22: a retrieval run with exactly one query adds a dummy query before
\* ranking and removes it afterwards, so the result map holds exactly the
\* original query ids.
C22_ResultHoldsOriginalIds ==
    \A k \in 1..Len(rt_queries) :
        Cardinality(rt_queries[k]) = 1 => rt_results[k] = rt_queries[k]

(* ---------------------------- C23: absent corpus ---------------------------- *)

\* an instance the loop has been at whose corpus.jsonl is missing
AbsentCorpusMet ==
    \E i \in 1..Len(rt_instances) : i <= rt_next /\ ~rt_instances[i].corpus

\* C23 as stated: if the corpus of a project is absent, retrieval for that
\* project fails with an error and never completes.
C23_AbsentCorpusFails ==
    rt_state = "done" => ~AbsentCorpusMet

\* C23 amended: with a query directory (the way the orchestrator calls the
\* retrieval) an absent corpus ends the run with FileNotFoundError and the run
\* never completes; without one the instance is skipped and the run completes
\* exactly when another instance was ranked, RuntimeError otherwise.
C23_AbsentCorpusFailsWithQueryDir ==
    /\ (rt_state = "done" /\ rt_query_dir.given) => ~AbsentCorpusMet
    /\ rt_state = "FileNotFoundError" =>
           /\ rt_query_dir.given
           /\ ~rt_instances[rt_next].corpus
    /\ rt_state = "done" =>
           /\ rt_processed > 0
           /\ rt_processed = Cardinality({ i \in 1..Len(rt_instances) :
                                               rt_instances[i].corpus })
    /\ rt_state = "RuntimeError" =>
           /\ ~rt_query_dir.given
           /\ \A i \in 1..Len(rt_instances) : ~rt_instances[i].corpus

\* a run with a query directory stopped by the absent corpus of its second
\* instance, after the first was ranked
C23_Witness ==
    /\ rt_state = "FileNotFoundError"
    /\ rt_query_dir.given
    /\ rt_next = 2
    /\ rt_processed = 1
    /\ ~rt_instances[2].corpus

(* ----------------------------- orchestrator ----------------------------- *)

\* projects_to_process of a run holding every project
Projects == << "repoeval_a", "repoeval_b" >>

\* the ST files readful_result of a project can hold
OrchFiles == << "f.st", "g.st" >>

\* the command line: query mode or an existing result directory, and the flags
Flags == [use_query_mode : BOOLEAN, skip_retrieve : BOOLEAN, skip_plan : BOOLEAN,
          skip_generation : BOOLEAN, skip_fix : BOOLEAN]

\* what the repair of one file ends in: auto_fix_st_code returns success, returns
\* without success, or raises
RepairOutcomes == {"success", "failure", "exception"}

\* the repairs of one run_fix: none when it returns before the loop (no
\* readful_result, no results.jsonl, no ST file), else one per file
RepairRuns == UNION { [1..n -> RepairOutcomes] : n \in 0..Len(OrchFiles) }

\* success_count after the loop over the files
SuccessCount(outcomes) ==
    Cardinality({ i \in 1..Len(outcomes) : outcomes[i] = "success" })

\* return success_count > 0
run_fix_returns(outcomes) == SuccessCount(outcomes) > 0

\* if use_query_mode and not args.skip_retrieve
RetrieveEnabled(args) == args.use_query_mode /\ ~args.skip_retrieve

\* if generate_plan_for_case is not None
PlanEnabled(args, planner) == planner

\* results["failed"].append({"project": ..., "step": ..., "error": ...})
record_failure(results, project, step) ==
    [results EXCEPT !.failed = Append(@, [project |-> project, step |-> step])]

\* an orchestrator that goes on with the next stage whatever a stage returned
next_after_ignoring_failure(step, ok) ==
    IF step = "retrieve" THEN "plan"
    ELSE IF step = "generation" THEN "fix"
    ELSE "project"

\* where control goes after a stage: on with the project, or "continue" to the
\* next project of the loop
next_after(step, ok) ==
    IF ~ok THEN "project"
    ELSE IF step = "retrieve" THEN "plan"
    ELSE IF step = "generation" THEN "fix"
    ELSE "project"

\* the index of the loop after a stage
idx_after(idx, pc_after) == IF pc_after = "project" THEN idx + 1 ELSE idx

\* main() about to enter the loop over projects_to_process
OrchInit ==
    /\ fp_pc = "project"
    /\ fp_args \in Flags
    /\ fp_planner \in BOOLEAN
    /\ fp_count \in 1..Len(Projects)
    /\ fp_idx = 1
    /\ fp_ran = [i \in 1..fp_count |-> <<>>]
    /\ fp_plans = [i \in 1..fp_count |-> [calls |-> 0, files |-> 0]]
    /\ fp_repairs = [i \in 1..fp_count |-> <<>>]
    /\ fp_results = [success |-> <<>>, failed |-> <<>>, skipped |-> <<>>]
    /\ fp_exit = -1

OrchOthers == << loop_vars, corpus_vars, compiler_vars, post_vars, boundary_vars,
                 retrieve_vars, backup_vars, retry_vars, endfix_vars >>

\* step 0 of a project: run_retrieve, then the check of its results.jsonl
OrchRetrieve ==
    /\ fp_pc = "project"
    /\ fp_idx <= fp_count
    /\ RetrieveEnabled(fp_args)
    /\ \E retrieve_success \in BOOLEAN, results_jsonl \in BOOLEAN :
           LET ok == retrieve_success /\ results_jsonl
               pc_after == next_after("retrieve", ok)
           IN  /\ fp_ran' = [fp_ran EXCEPT ![fp_idx] =
                                 Append(@, [step |-> "retrieve", ok |-> ok])]
               /\ fp_results' = IF ok THEN fp_results
                                ELSE record_failure(fp_results, Projects[fp_idx], "retrieve")
               /\ fp_pc' = pc_after
               /\ fp_idx' = idx_after(fp_idx, pc_after)
    /\ UNCHANGED << fp_args, fp_planner, fp_count, fp_plans, fp_repairs, fp_exit >>
    /\ UNCHANGED OrchOthers

\* no retrieval: the existing dataset_dir is used, the project skipped without it
OrchExisting ==
    /\ fp_pc = "project"
    /\ fp_idx <= fp_count
    /\ ~RetrieveEnabled(fp_args)
    /\ \E dataset_dir_exists \in BOOLEAN :
           IF dataset_dir_exists
           THEN /\ fp_pc' = "plan"
                /\ UNCHANGED << fp_idx, fp_results >>
           ELSE /\ fp_results' = [fp_results EXCEPT !.skipped = Append(@, Projects[fp_idx])]
                /\ fp_idx' = fp_idx + 1
                /\ UNCHANGED fp_pc
    /\ UNCHANGED << fp_args, fp_planner, fp_count, fp_ran, fp_plans, fp_repairs, fp_exit >>
    /\ UNCHANGED OrchOthers

\* the planning block: generate_plan_for_case for each query case of the
\* project, the two files written when the call returned
OrchPlan ==
    /\ fp_pc = "plan"
    /\ IF PlanEnabled(fp_args, fp_planner)
       THEN \E query_cases \in 0..1, written \in 0..1 :
                /\ written <= query_cases
                /\ fp_plans' = [fp_plans EXCEPT ![fp_idx] =
                                    [calls |-> query_cases, files |-> written]]
       ELSE UNCHANGED fp_plans
    /\ fp_pc' = "generation"
    /\ UNCHANGED << fp_args, fp_planner, fp_count, fp_idx, fp_ran, fp_repairs,
                    fp_results, fp_exit >>
    /\ UNCHANGED OrchOthers

\* step 1: run_generation unless --skip_generation
OrchGeneration ==
    /\ fp_pc = "generation"
    /\ IF fp_args.skip_generation
       THEN /\ fp_pc' = "fix"
            /\ UNCHANGED << fp_idx, fp_ran, fp_results >>
       ELSE \E gen_success \in BOOLEAN :
                LET pc_after == next_after("generation", gen_success)
                IN  /\ fp_ran' = [fp_ran EXCEPT ![fp_idx] =
                                      Append(@, [step |-> "generation", ok |-> gen_success])]
                    /\ fp_results' = IF gen_success THEN fp_results
                                     ELSE record_failure(fp_results, Projects[fp_idx],
                                                         "generation")
                    /\ fp_pc' = pc_after
                    /\ fp_idx' = idx_after(fp_idx, pc_after)
    /\ UNCHANGED << fp_args, fp_planner, fp_count, fp_plans, fp_repairs, fp_exit >>
    /\ UNCHANGED OrchOthers

\* step 2: run_fix unless --skip_fix, then the project is a success when
\* project_success is still True
OrchFix ==
    /\ fp_pc = "fix"
    /\ IF fp_args.skip_fix
       THEN /\ fp_results' = [fp_results EXCEPT !.success = Append(@, Projects[fp_idx])]
            /\ UNCHANGED << fp_ran, fp_repairs >>
       ELSE \E outcomes \in RepairRuns :
                LET fix_success == run_fix_returns(outcomes)
                IN  /\ fp_repairs' = [fp_repairs EXCEPT ![fp_idx] = outcomes]
                    /\ fp_ran' = [fp_ran EXCEPT ![fp_idx] =
                                      Append(@, [step |-> "fix", ok |-> fix_success])]
                    /\ fp_results' =
                           IF fix_success
                           THEN [fp_results EXCEPT !.success = Append(@, Projects[fp_idx])]
                           ELSE record_failure(fp_results, Projects[fp_idx], "fix")
    /\ fp_pc' = "project"
    /\ fp_idx' = fp_idx + 1
    /\ UNCHANGED << fp_args, fp_planner, fp_count, fp_plans, fp_exit >>
    /\ UNCHANGED OrchOthers

\* after the loop: the summary, then sys.exit(1) if results["failed"]
OrchExit ==
    /\ fp_pc = "project"
    /\ fp_idx > fp_count
    /\ fp_pc' = "exit"
    /\ fp_exit' = IF fp_results.failed # <<>> THEN 1 ELSE 0
    /\ UNCHANGED << fp_args, fp_planner, fp_count, fp_idx, fp_ran, fp_plans, fp_repairs,
                    fp_results >>
    /\ UNCHANGED OrchOthers

InitOrch ==
    /\ LoopInit
    /\ max_verify_count = 1
    /\ CorpusOff
    /\ CompilerOff
    /\ PostOff
    /\ BoundaryOff
    /\ RetrieveOff
    /\ OrchInit
    /\ BackupOff
    /\ RetryOff
    /\ EndFixOff

NextOrch ==
    \/ OrchRetrieve
    \/ OrchExisting
    \/ OrchPlan
    \/ OrchGeneration
    \/ OrchFix
    \/ OrchExit

SpecOrch == InitOrch /\ [][NextOrch]_vars

(* ---------------------------- C24: fail-fast per project ---------------------------- *)

\* project p is in the list (success, failed or skipped) of the results
InSuccess(p) == \E j \in 1..Len(fp_results.success) : fp_results.success[j] = Projects[p]

InSkipped(p) == \E j \in 1..Len(fp_results.skipped) : fp_results.skipped[j] = Projects[p]

FailedWithStep(p, step) ==
    \E j \in 1..Len(fp_results.failed) :
        fp_results.failed[j] = [project |-> Projects[p], step |-> step]

InFailed(p) == \E j \in 1..Len(fp_results.failed) : fp_results.failed[j].project = Projects[p]

FullSuccess(p) ==
    /\ \A k \in 1..Len(fp_ran[p]) : fp_ran[p][k].ok
    /\ \A i \in 1..Len(fp_repairs[p]) : fp_repairs[p][i] = "success"

\* C25: the orchestrator exits with code 0 only on full success (every
\* processed project completed every enabled stage, including the repair of its
\* files) and with code 1 if any project failed.
C25_ExitZeroOnlyOnFullSuccess ==
    /\ fp_exit = 0 => \A p \in 1..fp_count : ~InSkipped(p) => FullSuccess(p)
    /\ (fp_pc = "exit" /\ fp_results.failed # <<>>) => fp_exit = 1

(* ---------------------------- C27: --skip_plan ---------------------------- *)

\* C27: with --skip_plan no plan LLM call is made and no plan_results or
\* plan_prompts file is written for any case of the project.
C27_SkipPlanMakesNoPlan ==
    fp_args.skip_plan =>
        \A p \in 1..fp_count : fp_plans[p] = [calls |-> 0, files |-> 0]

(* ------------------------- backup before the repair ------------------------- *)

\* calls of run_fix on one result directory
MaxRuns == 3

\* the revision of a file the generation stage wrote and no repair has touched
Generated == 0

\* shutil.rmtree(backup_dir) if it exists, then
\* shutil.copytree(readful_result_dir, backup_dir)
copy_backup(readful, backup) == readful

\* with open(output_st_file, 'w') as f: f.write(fixed_code), in the success and
\* in the failure branch; nothing is written when auto_fix_st_code raised
write_fixed(revision, outcome, modified) ==
    IF outcome # "exception" /\ modified THEN revision + 1 ELSE revision

\* a result directory after the generation stage: readful_result with its ST
\* files, no backup yet
BackupInit ==
    /\ rf_state = "idle"
    /\ rf_readful \in UNION { [1..n -> {Generated}] : n \in 1..Len(OrchFiles) }
    /\ rf_backup = <<>>
    /\ rf_next = 0
    /\ rf_runs = 0

BackupOthers == << loop_vars, corpus_vars, compiler_vars, post_vars, boundary_vars,
                   retrieve_vars, orch_vars, retry_vars, endfix_vars >>

\* run_fix(dataset_dir, in_place=True) up to the loop over the ST files
RunFixBackup ==
    /\ rf_state = "idle"
    /\ rf_backup' = copy_backup(rf_readful, rf_backup)
    /\ rf_state' = "copied"
    /\ rf_next' = 1
    /\ rf_runs' = rf_runs + 1
    /\ UNCHANGED rf_readful
    /\ UNCHANGED BackupOthers

\* one pass of "for st_file in st_files": the repair of the file in place
RunFixRepairFile ==
    /\ rf_state = "copied"
    /\ rf_next <= Len(rf_readful)
    /\ \E outcome \in RepairOutcomes, modified \in BOOLEAN :
           rf_readful' = [rf_readful EXCEPT ![rf_next] =
                              write_fixed(@, outcome, modified)]
    /\ rf_next' = rf_next + 1
    /\ UNCHANGED << rf_state, rf_backup, rf_runs >>
    /\ UNCHANGED BackupOthers

\* after the loop: create_no_provide_version and return
RunFixReturn ==
    /\ rf_state = "copied"
    /\ rf_next > Len(rf_readful)
    /\ rf_state' = "returned"
    /\ UNCHANGED << rf_readful, rf_backup, rf_next, rf_runs >>
    /\ UNCHANGED BackupOthers

\* the repair stage is started again on the same result directory
RunFixAgain ==
    /\ rf_state = "returned"
    /\ rf_runs < MaxRuns
    /\ rf_state' = "idle"
    /\ UNCHANGED << rf_readful, rf_backup, rf_next, rf_runs >>
    /\ UNCHANGED BackupOthers

InitBackup ==
    /\ LoopInit
    /\ max_verify_count = 1
    /\ CorpusOff
    /\ CompilerOff
    /\ PostOff
    /\ BoundaryOff
    /\ RetrieveOff
    /\ OrchOff
    /\ BackupInit
    /\ RetryOff
    /\ EndFixOff

NextBackup ==
    \/ RunFixBackup
    \/ RunFixRepairFile
    \/ RunFixReturn
    \/ RunFixAgain

SpecBackup == InitBackup /\ [][NextBackup]_vars

(* ---------------------------- C26: the backup ---------------------------- *)

\* C26: after the repair stage, including when it is run again on the same
\* result directory, readful_result_before_fix/{f}.st holds the content that
\* readful_result/{f}.st had before any repair modification was made to it.
C26_BackupHoldsOriginal ==
    rf_state = "returned" =>
        /\ Len(rf_backup) = Len(rf_readful)
        /\ \A f \in 1..Len(rf_backup) : rf_backup[f] = Generated

(* ------------------------- generation LLM call ------------------------- *)

\* largest n_iters and sleep given to get_response
MaxIters == 4

MaxSleep == 3

\* def get_response(user_prompt, n_iters: int = 2, sleep: int = 10, **kwargs)
DefaultIters == 2

DefaultSleep == 10

\* time.sleep(i_iters * sleep)
backoff(i_iters, sleep) == i_iters * sleep

\* while i_iters <= n_iters: one attempt more than n_iters
retry_guard_inclusive(i_iters, n_iters) == i_iters <= n_iters

\* while i_iters < n_iters
retry_guard(i_iters, n_iters) == i_iters < n_iters

\* get_response called: i_iters = 0
RetryInit ==
    /\ gr_state = "loop"
    /\ gr_n_iters \in 0..MaxIters
    /\ gr_sleep \in (1..MaxSleep) \cup {DefaultSleep}
    /\ gr_i_iters = 0
    /\ gr_calls = <<>>
    /\ gr_slept = <<>>

RetryOthers == << loop_vars, corpus_vars, compiler_vars, post_vars, boundary_vars,
                  retrieve_vars, orch_vars, backup_vars, endfix_vars >>

\* one pass of the loop in which client.chat.completions.create raises: the
\* except branch, with its sleep when i_iters < n_iters
GetResponseCallRaises ==
    /\ gr_state = "loop"
    /\ retry_guard(gr_i_iters, gr_n_iters)
    /\ gr_i_iters' = gr_i_iters + 1
    /\ gr_calls' = Append(gr_calls, "raised")
    /\ gr_slept' = IF gr_i_iters' < gr_n_iters
                   THEN Append(gr_slept, backoff(gr_i_iters', gr_sleep))
                   ELSE gr_slept
    /\ UNCHANGED << gr_state, gr_n_iters, gr_sleep >>
    /\ UNCHANGED RetryOthers

\* one pass of the loop in which the call answers: return the choices
GetResponseCallReturns ==
    /\ gr_state = "loop"
    /\ retry_guard(gr_i_iters, gr_n_iters)
    /\ gr_i_iters' = gr_i_iters + 1
    /\ gr_calls' = Append(gr_calls, "returned")
    /\ gr_state' = "returned"
    /\ UNCHANGED << gr_n_iters, gr_sleep, gr_slept >>
    /\ UNCHANGED RetryOthers

\* the loop is left: raise Exception("Failed to get response ...")
GetResponseRaise ==
    /\ gr_state = "loop"
    /\ ~retry_guard(gr_i_iters, gr_n_iters)
    /\ gr_state' = "raised"
    /\ UNCHANGED << gr_n_iters, gr_sleep, gr_i_iters, gr_calls, gr_slept >>
    /\ UNCHANGED RetryOthers

InitRetry ==
    /\ LoopInit
    /\ max_verify_count = 1
    /\ CorpusOff
    /\ CompilerOff
    /\ PostOff
    /\ BoundaryOff
    /\ RetrieveOff
    /\ OrchOff
    /\ BackupOff
    /\ RetryInit
    /\ EndFixOff

NextRetry ==
    \/ GetResponseCallRaises
    \/ GetResponseCallReturns
    \/ GetResponseRaise

SpecRetry == InitRetry /\ [][NextRetry]_vars

(* ---------------------------- C28: bounded retry ---------------------------- *)

\* the attempts that raised
FailedAttempts == { k \in 1..Len(gr_calls) : gr_calls[k] = "raised" }

\* the failed attempts after which another attempt could follow
FollowedAttempts == { k \in FailedAttempts : k < gr_n_iters }

\* C28: the generation LLM call is attempted at most n_iters times, 2 by
\* default; after failed attempt i it waits i * sleep seconds only when another
\* attempt follows; it raises after the final failure; no attempt is made after
\* a successful one.
C28_BoundedRetry ==
    /\ Len(gr_calls) <= gr_n_iters
    /\ gr_n_iters = DefaultIters => Len(gr_calls) <= 2
    /\ \A k \in 1..(Len(gr_calls) - 1) : gr_calls[k] = "raised"
    /\ gr_slept = [k \in 1..Cardinality(FollowedAttempts) |-> k * gr_sleep]
    /\ gr_state = "raised" =>
           /\ Len(gr_calls) = gr_n_iters
           /\ FailedAttempts = 1..gr_n_iters
    /\ gr_state = "returned" =>
           /\ gr_calls # <<>>
           /\ gr_calls[Len(gr_calls)] = "returned"
    /\ gr_state = "loop" => FailedAttempts = 1..Len(gr_calls)

\* the call with its defaults raised twice: one wait of 10 seconds, then the
\* exception
C28_Witness ==
    /\ gr_state = "raised"
    /\ gr_n_iters = DefaultIters
    /\ gr_sleep = DefaultSleep
    /\ gr_calls = << "raised", "raised" >>
    /\ gr_slept = << 10 >>

(* ------------------------- fix_missing_end_blocks ------------------------- *)

\* lines of the code given to fix_missing_end_blocks
MaxCodeLines == 3

\* the lines the code is made of
CodeLines == {
    \* "IF a THEN"
    << "I", "F", " ", "a", " ", "T", "H", "E", "N" >>,
    \* " IF b THEN"
    << " ", "I", "F", " ", "b", " ", "T", "H", "E", "N" >>,
    \* "END_IF;"
    << "E", "N", "D", "_", "I", "F", ";" >>,
    \* "CASE x OF"
    << "C", "A", "S", "E", " ", "x", " ", "O", "F" >>,
    \* "END_CASE;"
    << "E", "N", "D", "_", "C", "A", "S", "E", ";" >>,
    \* "x:=1;"
    << "x", ":", "=", "1", ";" >>,
    \* "IF a THEN x:=1; END_IF;"
    << "I", "F", " ", "a", " ", "T", "H", "E", "N", " ", "x", ":", "=", "1", ";", " ", "E", "N", "D", "_", "I", "F", ";" >> }

\* the code: what code.splitlines() returns
Codes == UNION { [1..n -> CodeLines] : n \in 1..MaxCodeLines }

Slashes == << "/", "/" >>

IF_SPACE_ == << "I", "F", " " >>

IF_PAREN_ == << "I", "F", "(" >>

IF_TAB_ == << "I", "F", "\t" >>

THEN_ == << " ", "T", "H", "E", "N" >>

ELSIF_ == << "E", "L", "S", "I", "F" >>

ELSE_ == << "E", "L", "S", "E" >>

CASE_SPACE_ == << "C", "A", "S", "E", " " >>

END_IF_ == << "E", "N", "D", "_", "I", "F" >>

END_CASE_ == << "E", "N", "D", "_", "C", "A", "S", "E" >>

\* END_MAP = {"IF": "END_IF;", "CASE": "END_CASE;"}
END_MAP(type) == IF type = "IF" THEN << "E", "N", "D", "_", "I", "F", ";" >> ELSE << "E", "N", "D", "_", "C", "A", "S", "E", ";" >>

\* line.split("//", 1)[0]
_strip_inline_comment(line) ==
    IF Contains(line, Slashes) THEN Take(line, FindFrom(line, Slashes, 1) - 1) ELSE line

\* IF ... THEN at the start of the line, ELSIF and ELSE left out
_is_if_start(text) ==
    LET upper == Upper(StripText(text))
    IN  /\ \/ StartsWith(upper, IF_SPACE_)
           \/ StartsWith(upper, IF_PAREN_)
           \/ StartsWith(upper, IF_TAB_)
        /\ Contains(upper, THEN_)
        /\ ~StartsWith(upper, ELSIF_)
        /\ ~StartsWith(upper, ELSE_)

_is_case_start(text) == StartsWith(Upper(StripText(text)), CASE_SPACE_)

\* the block an END_ keyword at the start of the line closes, "None" without one
_match_end_keyword(text) ==
    LET upper == Upper(StripText(text))
    IN  IF StartsWith(upper, END_IF_) THEN "IF"
        ELSE IF StartsWith(upper, END_CASE_) THEN "CASE"
        ELSE "None"

\* re.match(r"\s*", raw_line).group(0)
IndentOf(raw_line) == Take(raw_line, Len(raw_line) - Len(LStripText(raw_line)))

\* the locals of fix_missing_end_blocks before the loop
ScanStart == [stack |-> <<>>, new_lines |-> <<>>, inserts |-> <<>>]

\* pop the top of the stack and put its END_ line in; before = 0 stands for the
\* end of the file
InsertMissing(st, before) ==
    LET top == st.stack[Len(st.stack)]
    IN  [stack |-> Take(st.stack, Len(st.stack) - 1),
         new_lines |-> Append(st.new_lines, top.indent \o END_MAP(top.type)),
         inserts |-> Append(st.inserts, [line |-> END_MAP(top.type), before |-> before])]

\* while stack and stack[-1][0] != token_end
RECURSIVE PopMismatched(_, _, _)
PopMismatched(st, token_end, idx) ==
    IF st.stack # <<>> /\ st.stack[Len(st.stack)].type # token_end
    THEN PopMismatched(InsertMissing(st, idx), token_end, idx)
    ELSE st

\* one pass of "for idx, raw_line in enumerate(lines, start=1)"
ScanLine(st, raw_line, idx) ==
    LET line_no_comment == _strip_inline_comment(raw_line)
        token_end == _match_end_keyword(line_no_comment)
        indent == IndentOf(raw_line)
    IN  IF token_end # "None"
        THEN LET closed == PopMismatched(st, token_end, idx)
                 stack == IF closed.stack # <<>>
                             /\ closed.stack[Len(closed.stack)].type = token_end
                          THEN Take(closed.stack, Len(closed.stack) - 1)
                          ELSE closed.stack
             IN  [closed EXCEPT !.stack = stack, !.new_lines = Append(@, raw_line)]
        ELSE LET stack == IF _is_if_start(line_no_comment)
                          THEN Append(st.stack, [type |-> "IF", indent |-> indent])
                          ELSE IF _is_case_start(line_no_comment)
                          THEN Append(st.stack, [type |-> "CASE", indent |-> indent])
                          ELSE st.stack
             IN  [st EXCEPT !.stack = stack, !.new_lines = Append(@, raw_line)]

RECURSIVE ScanLines(_, _, _)
ScanLines(st, lines, idx) ==
    IF idx > Len(lines) THEN st
    ELSE ScanLines(ScanLine(st, lines[idx], idx), lines, idx + 1)

\* while stack: the blocks still open at the end of the file
RECURSIVE CloseAtEnd(_)
CloseAtEnd(st) ==
    IF st.stack # <<>> THEN CloseAtEnd(InsertMissing(st, 0)) ELSE st

\* fix_missing_end_blocks(code): the lines of the new code and the inserts
fix_missing_end_blocks(lines) == CloseAtEnd(ScanLines(ScanStart, lines, 1))

\* the code has been read
EndFixInit ==
    /\ fe_state = "read"
    /\ fe_lines \in Codes
    /\ fe_new_lines = <<>>
    /\ fe_inserts = <<>>

EndFixOthers == << loop_vars, corpus_vars, compiler_vars, post_vars, boundary_vars,
                   retrieve_vars, orch_vars, backup_vars, retry_vars >>

\* fixed, inserts = fix_missing_end_blocks(code)
FixMissingEndBlocks ==
    /\ fe_state = "read"
    /\ LET fixed == fix_missing_end_blocks(fe_lines)
       IN  /\ fe_new_lines' = fixed.new_lines
           /\ fe_inserts' = fixed.inserts
    /\ fe_state' = "fixed"
    /\ UNCHANGED fe_lines
    /\ UNCHANGED EndFixOthers

InitEndFix ==
    /\ LoopInit
    /\ max_verify_count = 1
    /\ CorpusOff
    /\ CompilerOff
    /\ PostOff
    /\ BoundaryOff
    /\ RetrieveOff
    /\ OrchOff
    /\ BackupOff
    /\ RetryOff
    /\ EndFixInit

NextEndFix == FixMissingEndBlocks

SpecEndFix == InitEndFix /\ [][NextEndFix]_vars

(* ---------------------------- C30: closed code ---------------------------- *)

\* what a line opens and closes, in the order of the line: an IF ... THEN or a
\* CASE at its start, an END_IF or END_CASE anywhere in it
BlockEvents(line) ==
    LET text == _strip_inline_comment(line)
        upper == Upper(text)
    IN  (IF _is_if_start(text) THEN << [open |-> TRUE, type |-> "IF"] >>
         ELSE IF _is_case_start(text) THEN << [open |-> TRUE, type |-> "CASE"] >>
         ELSE <<>>)
        \o (IF Contains(upper, END_IF_) THEN << [open |-> FALSE, type |-> "IF"] >>
            ELSE IF Contains(upper, END_CASE_) THEN << [open |-> FALSE, type |-> "CASE"] >>
            ELSE <<>>)

RECURSIVE AllEvents(_)
AllEvents(lines) ==
    IF lines = <<>> THEN <<>> ELSE BlockEvents(Head(lines)) \o AllEvents(Tail(lines))

\* every END_ closes the block opened last and nothing stays open
RECURSIVE Balanced(_, _)
Balanced(events, open) ==
    IF events = <<>> THEN open = <<>>
    ELSE IF Head(events).open
    THEN Balanced(Tail(events), Append(open, Head(events).type))
    ELSE /\ open # <<>>
         /\ open[Len(open)] = Head(events).type
         /\ Balanced(Tail(events), Take(open, Len(open) - 1))

\* every IF ... THEN and every CASE of the code is closed by its own END_
EveryBlockClosed(lines) == Balanced(AllEvents(lines), <<>>)

\* C30: fix_missing_end_blocks inserts nothing into code in which every
\* IF ... THEN and every CASE is already closed by its own END_IF / END_CASE,
\* an IF opened and closed on one line included: the output lines equal the
\* input lines and the insert record is empty.
C30_ClosedCodeUnchanged ==
    (fe_state = "fixed" /\ EveryBlockClosed(fe_lines)) =>
        /\ fe_new_lines = fe_lines
        /\ fe_inserts = <<>>

====
